---- MODULE Spec2Model ----
(***************************************************************************)
(* Budget-App: the budget analysis engine (src/src/lib/calculations.ts)    *)
(* and the BudgetGoals component that owns the goal collection             *)
(* (src/src/components/Charts/RunningBalanceChart.tsx, lines 126-).        *)
(*                                                                         *)
(* Numbers.  Amounts are integers.  A quotient the code computes with `/`  *)
(* is kept as an exact reduced fraction [num, den] (den > 0), so that a    *)
(* threshold test such as `percentage >= 80` is decided exactly.           *)
(*                                                                         *)
(* Dates.  An ISO date string "YYYY-MM-DD..." is the record                *)
(* [year, month, day]; its first seven characters "YYYY-MM" are the record *)
(* [year, month].  A JavaScript Date is a local civil date together with   *)
(* the number of days (-1, 0, 1) by which the UTC civil date of the same   *)
(* instant differs from the local one.                                     *)
(***************************************************************************)
EXTENDS Integers, Sequences, FiniteSets

VARIABLES
    transactions,     \* Transaction[] argument of the analysis functions
    startingBalance,  \* startingBalance argument of analyzeBudget
    goalsArg,         \* BudgetGoal[] argument of calculateBudgetProgress
    monthArg,         \* currentMonth argument of calculateBudgetProgress
    called,           \* which function has been called ("none" before the call)
    totals,           \* value returned by computeTotals
    analysis,         \* value returned by analyzeBudget
    progress,         \* value returned by calculateBudgetProgress
    goals,            \* BudgetGoals: useState<BudgetGoal[]>
    newGoal,          \* BudgetGoals: useState({category, limit}) the form
    showSetup,        \* BudgetGoals: useState(false)
    now,              \* the clock: what `new Date()` returns
    prevGoals,        \* history: goals before the last handler that set them
    lastOp,           \* history: that handler, and what it read and computed
    full,             \* value returned by performFullAnalysis
    balanceB,         \* startingBalance argument of a second call
    fullB,            \* value returned by that second call
    grouped,          \* value returned by groupByCategory
    transactionsB,    \* Transaction[] argument of a second call
    summary,          \* string returned by prepareBudgetDataForAI
    summaryB,         \* string returned by that second call
    keyPresent,       \* server: OPENROUTER_API_KEY is set and not blank
    nowMs,            \* server: what Date.now() returns
    chatRateLimiter,  \* server: Map<string, number[]>, [] for a missing key
    chatLeft,         \* per session, the chat requests that are yet to be sent
    admitted,         \* history: per session, the times of the admitted requests
    chatResponse,     \* history: the last response of POST /api/chat
    clientBodies,     \* the request bodies that the clients of this run send
    analysisCache,    \* server: Record<string, any>, a function of its keys
    inflight,         \* server: the analyze-budget handlers that are suspended
    analyzeLeft,      \* the analyze-budget requests that are yet to be sent
    computedFor,      \* history: the bodies whose computed analysis was stored
    firstAnswered,    \* history: per body, the data of its first 200 response
    analyzeResponse,  \* history: the last response of POST /api/analyze-budget
    reportLeft,       \* the monthly-report requests that are yet to be sent
    reportResponse,   \* history: the last response of POST /api/monthly-report
    form,             \* App: useState({type, description, category, amount})
    editingId,        \* App: useState<string | null>(null), "" for null
    editForm,         \* App: useState({description, category, amount})
    nanoidCount,      \* how many ids nanoid() has returned to addTransaction
    lastAppOp,        \* history: the App handler that ran last
    messages,         \* FinancialAdvisorChat: useState<ChatMessage[]>([])
    input,            \* FinancialAdvisorChat: useState('')
    loading,          \* FinancialAdvisorChat: useState(false)
    pending,          \* the calls of sendMessage that are suspended at an await
    sendsLeft,        \* the submits of the form that are yet to be accepted
    lastSendOp        \* history: the step of the component that ran last

vars == << transactions, startingBalance, goalsArg, monthArg, called, totals,
           analysis, progress, goals, newGoal, showSetup, now, prevGoals,
           lastOp, full, balanceB, fullB, grouped, transactionsB,
           summary, summaryB, keyPresent, nowMs, chatRateLimiter, chatLeft,
           admitted, chatResponse, clientBodies, analysisCache, inflight,
           analyzeLeft, computedFor, firstAnswered, analyzeResponse,
           reportLeft,
           reportResponse, form, editingId, editForm, nanoidCount,
           lastAppOp, messages, input, loading, pending, sendsLeft,
           lastSendOp >>

calcVars == << transactions, startingBalance, goalsArg, monthArg, called,
               totals, analysis, progress >>

goalVars == << goals, newGoal, showSetup, now, prevGoals, lastOp >>

fullVars == << full, balanceB, fullB >>

libVars == << grouped >>

\* the variables of the other components, which calcVars and goalVars leave out
aiVars == << transactionsB, summary, summaryB >>

chatVars == << nowMs, chatRateLimiter, chatLeft, admitted, chatResponse >>

analyzeVars == << analysisCache, inflight, analyzeLeft, computedFor,
                 firstAnswered,
                  analyzeResponse >>

reportVars == << reportLeft, reportResponse >>

serverVars == << keyPresent, clientBodies, chatVars, analyzeVars, reportVars >>

appVars == << form, editingId, editForm, nanoidCount, lastAppOp >>

advisorVars == << messages, input, loading, pending, sendsLeft, lastSendOp >>

extVars == << fullVars, libVars, aiVars, serverVars, appVars, advisorVars >>

\* what a step of one component leaves unchanged outside calcVars
outsideFull == << goalVars, libVars, aiVars, serverVars, appVars,
                 advisorVars >>
outsideLib == << goalVars, fullVars, aiVars, serverVars, appVars,
                advisorVars >>
outsideAI == << goalVars, libVars, serverVars, appVars, advisorVars >>
outsideServer == << calcVars, goalVars, fullVars, libVars, aiVars, appVars,
                   advisorVars >>
outsideApp == << goalVars, fullVars, libVars, aiVars, serverVars,
                advisorVars >>
outsideAdvisor == << calcVars, goalVars, fullVars, libVars, aiVars,
                    serverVars, appVars >>

----------------------------------------------------------------------------
(* Bounds of the model *)

MaxTx == 3
MaxProgressTx == 3
MaxGoalArgs == 3
MaxGoals == 3
MaxFullTx == 3
MaxLibArgs == 2
MaxAITx == 2
MaxChat == 6
MaxChatOther == 1
MaxAnalyze == 3
MaxInflight == 2
MaxAdds == 1
MaxAdviceTx == 3
MaxSends == 2

----------------------------------------------------------------------------
(* Numbers *)

Abs(n) == IF n < 0 THEN -n ELSE n

RECURSIVE GCD(_, _)
GCD(a, b) == IF b = 0 THEN a ELSE GCD(b, a % b)

Sign(n) == IF n > 0 THEN 1 ELSE IF n < 0 THEN -1 ELSE 0

\* n / d as the code's `/` computes it.  Division by zero does not throw:
\* it yields Infinity [1, 0], -Infinity [-1, 0] or NaN [0, 0].
Div(n, d) ==
    IF d = 0 THEN [num |-> Sign(n), den |-> 0]
    ELSE LET g == GCD(Abs(n), Abs(d))
             s == Sign(d)
         IN  [num |-> (s * n) \div g, den |-> (s * d) \div g]

Zero == [num |-> 0, den |-> 1]

IsFinite(q) == q.den # 0

\* q * k for an integer k > 0
Times(q, k) == Div(q.num * k, q.den)

\* q >= k, q > k, q < k for an integer k (every comparison with NaN is false)
GE(q, k) == IF q.den = 0 THEN q.num > 0 ELSE q.num >= k * q.den
GT(q, k) == IF q.den = 0 THEN q.num > 0 ELSE q.num > k * q.den
LT(q, k) == IF q.den = 0 THEN q.num < 0 ELSE q.num < k * q.den

----------------------------------------------------------------------------
(* Dates *)

YM(y, m) == [year |-> y, month |-> m]

Date(y, m, d) == [year |-> y, month |-> m, day |-> d]

\* dateISO.slice(0, 7)
Slice7(d) == YM(d.year, d.month)

IsLeap(y) == (y % 4 = 0 /\ y % 100 # 0) \/ y % 400 = 0

DaysInMonth(y, m) ==
    IF m = 2 THEN (IF IsLeap(y) THEN 29 ELSE 28)
    ELSE IF m \in {4, 6, 9, 11} THEN 30
    ELSE 31

\* A Date object: the local civil date and the shift, in days, of the UTC
\* civil date of the same instant
Instant(y, m, d, shift) == [year |-> y, month |-> m, day |-> d, shift |-> shift]

\* Date.prototype.getMonth(): the local month, counted from 0
getMonth(t) == t.month - 1

\* Date.prototype.setMonth(m0) for 0 <= m0 <= 12: the local date becomes day
\* t.day of month m0 of t.year; a month past December carries into the year and
\* a day past the end of the month carries into the following month.  The time
\* of day, and with it the shift to UTC, stays.
setMonth(t, m0) ==
    LET y == t.year + (m0 \div 12)
        m == (m0 % 12) + 1
        dim == DaysInMonth(y, m)
    IN  IF t.day <= dim THEN Instant(y, m, t.day, t.shift)
        ELSE IF m = 12 THEN Instant(y + 1, 1, t.day - dim, t.shift)
        ELSE Instant(y, m + 1, t.day - dim, t.shift)

\* Date.prototype.toISOString(): the UTC civil date of the instant
toISOString(t) ==
    IF t.shift = 1
    THEN IF t.day < DaysInMonth(t.year, t.month) THEN Date(t.year, t.month, t.day + 1)
         ELSE IF t.month = 12 THEN Date(t.year + 1, 1, 1)
         ELSE Date(t.year, t.month + 1, 1)
    ELSE IF t.shift = -1
    THEN IF t.day > 1 THEN Date(t.year, t.month, t.day - 1)
         ELSE IF t.month = 1 THEN Date(t.year - 1, 12, 31)
         ELSE Date(t.year, t.month - 1, DaysInMonth(t.year, t.month - 1))
    ELSE Date(t.year, t.month, t.day)

----------------------------------------------------------------------------
(* src/src/types.ts *)

Tx(type, date, amount, category) ==
    [type |-> type, date |-> date, amount |-> amount, category |-> category]

\* a Transaction with all the fields of the interface
Transaction(id, type, date, periodTag, amount, description, category) ==
    [id |-> id, type |-> type, date |-> date, periodTag |-> periodTag,
     amount |-> amount, description |-> description, category |-> category]

Goal(category, monthlyLimit, month) ==
    [category |-> category, monthlyLimit |-> monthlyLimit, month |-> month]

----------------------------------------------------------------------------
(* src/src/lib/calculations.ts *)

RECURSIVE computeTotalsFrom(_, _, _)
computeTotalsFrom(txs, i, acc) ==
    IF i > Len(txs) THEN acc
    ELSE LET t == txs[i]
         IN  computeTotalsFrom(txs, i + 1,
                IF t.type = "income"
                THEN [acc EXCEPT !.incomeTotal = @ + t.amount]
                ELSE [acc EXCEPT !.expenseTotal = @ + t.amount])

computeTotals(txs) ==
    computeTotalsFrom(txs, 1, [incomeTotal |-> 0, expenseTotal |-> 0])

\* Map.get(key) || 0 on a Map kept as a sequence of entries in insertion order
MapGet(map, key) ==
    IF \E i \in 1..Len(map) : map[i].category = key
    THEN LET i == CHOOSE j \in 1..Len(map) : map[j].category = key
         IN  map[i].total
    ELSE 0

\* Map.set(key, value): an existing key keeps its position, a new key is appended
\* Map.set that puts a new key in front of the entries
MapSetNewestFirst(map, key, value) ==
    IF \E i \in 1..Len(map) : map[i].category = key
    THEN [i \in 1..Len(map) |->
            IF map[i].category = key
            THEN [category |-> key, total |-> value]
            ELSE map[i]]
    ELSE << [category |-> key, total |-> value] >> \o map

MapSet(map, key, value) ==
    IF \E i \in 1..Len(map) : map[i].category = key
    THEN [i \in 1..Len(map) |->
            IF map[i].category = key
            THEN [category |-> key, total |-> value]
            ELSE map[i]]
    ELSE Append(map, [category |-> key, total |-> value])

RECURSIVE groupByCategoryFrom(_, _, _, _)
groupByCategoryFrom(txs, type, i, map) ==
    IF i > Len(txs) THEN map
    ELSE LET t == txs[i]
         IN  groupByCategoryFrom(txs, type, i + 1,
                IF t.type # type THEN map
                ELSE MapSet(map, t.category, MapGet(map, t.category) + t.amount))

groupByCategory(txs, type) == groupByCategoryFrom(txs, type, 1, << >>)

\* the threshold of the 'warning' status, in percent
WarningPercent == 80

\* calculateBudgetProgress: `goal.monthlyLimit > 0 ? (spent / goal.monthlyLimit) * 100 : 0`
progressPercentage(spent, monthlyLimit) ==
    IF monthlyLimit > 0 THEN Times(Div(spent, monthlyLimit), 100) ELSE Zero

\* progressStatus with `spent >= goal.monthlyLimit` as the test for 'exceeded'
progressStatusAtLimit(spent, monthlyLimit, percentage) ==
    IF spent >= monthlyLimit THEN "exceeded"
    ELSE IF GE(percentage, WarningPercent) THEN "warning"
    ELSE "safe"

\* calculateBudgetProgress: the status chosen by the if / else if
progressStatus(spent, monthlyLimit, percentage) ==
    IF spent > monthlyLimit THEN "exceeded"
    ELSE IF GE(percentage, WarningPercent) THEN "warning"
    ELSE "safe"

\* the `.map(goal => ...)` callback of calculateBudgetProgress
goalProgress(goal, spendingMap) ==
    LET spent == MapGet(spendingMap, goal.category)
        percentage == progressPercentage(spent, goal.monthlyLimit)
        remaining == goal.monthlyLimit - spent
    IN  [category |-> goal.category,
         spent |-> spent,
         limit |-> goal.monthlyLimit,
         percentage |-> percentage,
         remaining |-> remaining,
         status |-> progressStatus(spent, goal.monthlyLimit, percentage)]

\* isMonthExpense without the comparison of the month
isMonthExpenseAnyMonth(t, currentMonth) ==
    IF t.type # "expense" THEN FALSE
    ELSE TRUE

\* the `.filter(t => ...)` callback of calculateBudgetProgress
isMonthExpense(t, currentMonth) ==
    IF t.type # "expense" THEN FALSE
    ELSE Slice7(t.date) = currentMonth

\* isMonthGoal that lets the goals of every month through
isMonthGoalAnyMonth(g, currentMonth) == TRUE

\* the `.filter(g => g.month === currentMonth)` callback of calculateBudgetProgress
isMonthGoal(g, currentMonth) == g.month = currentMonth

calculateBudgetProgress(txs, gs, currentMonth) ==
    LET IsMonthExpense(t) == isMonthExpense(t, currentMonth)
        monthExpenses == SelectSeq(txs, IsMonthExpense)
        spendingMap == groupByCategory(monthExpenses, "expense")
        InMonth(g) == isMonthGoal(g, currentMonth)
        matching == SelectSeq(gs, InMonth)
    IN  [k \in 1..Len(matching) |-> goalProgress(matching[k], spendingMap)]

\* getCurrentMonth() when `new Date()` is t
getCurrentMonth(t) == Slice7(toISOString(t))

\* analyzeBudget: `incomeTotal > 0 ? (netSavings / incomeTotal) * 100 : 0`
savingsRateOf(netSavings, incomeTotal) ==
    IF incomeTotal > 0 THEN Times(Div(netSavings, incomeTotal), 100) ELSE Zero

\* categoryPercentage without the test of the denominator
categoryPercentageUnguarded(total, expenseTotal) ==
    Times(Div(total, expenseTotal), 100)

\* analyzeBudget: `expenseTotal > 0 ? (cat.total / expenseTotal) * 100 : 0`
categoryPercentage(total, expenseTotal) ==
    IF expenseTotal > 0 THEN Times(Div(total, expenseTotal), 100) ELSE Zero

\* analyzeBudget with the opening balance counted into the savings
analyzeBudgetWithBalance(balance, txs) ==
    LET t == computeTotals(txs)
        incomeTotal == t.incomeTotal
        expenseTotal == t.expenseTotal
        netSavings == balance + incomeTotal - expenseTotal
        savingsRate == savingsRateOf(netSavings, incomeTotal)
        expenseCategories == groupByCategory(txs, "expense")
        categoryBreakdown ==
            [k \in 1..Len(expenseCategories) |->
                [category |-> expenseCategories[k].category,
                 amount |-> expenseCategories[k].total,
                 percentage |-> categoryPercentage(expenseCategories[k].total,
                                                   expenseTotal)]]
    IN  [totalIncome |-> incomeTotal,
         totalExpenses |-> expenseTotal,
         netSavings |-> netSavings,
         savingsRate |-> savingsRate,
         categoryBreakdown |-> categoryBreakdown]

analyzeBudget(balance, txs) ==
    LET t == computeTotals(txs)
        incomeTotal == t.incomeTotal
        expenseTotal == t.expenseTotal
        netSavings == incomeTotal - expenseTotal
        savingsRate == savingsRateOf(netSavings, incomeTotal)
        expenseCategories == groupByCategory(txs, "expense")
        categoryBreakdown ==
            [k \in 1..Len(expenseCategories) |->
                [category |-> expenseCategories[k].category,
                 amount |-> expenseCategories[k].total,
                 percentage |-> categoryPercentage(expenseCategories[k].total,
                                                   expenseTotal)]]
    IN  [totalIncome |-> incomeTotal,
         totalExpenses |-> expenseTotal,
         netSavings |-> netSavings,
         savingsRate |-> savingsRate,
         categoryBreakdown |-> categoryBreakdown]

\* Number.prototype.toFixed(digits) of a finite number: the decimal numeral
\* with `digits` fraction digits nearest to q, kept as the integer it shows
\* without its decimal point ("88.9" is 889); a tie goes away from zero
ToFixed(q, digits) ==
    LET scaled == Abs(q.num) * 10^digits
        shown == (2 * scaled + q.den) \div (2 * q.den)
    IN  Sign(q.num) * shown

\* String.prototype.toLowerCase on the category names of the model
toLowerCase(str) ==
    CASE str = "Food" -> "food"
      [] str = "Rent" -> "rent"
      [] str = "Housing" -> "housing"
      [] str = "Groceries" -> "groceries"
      [] str = "Parent Care" -> "parent care"
      [] str = "Job" -> "job"
      [] OTHER -> str

\* String.prototype.includes on the lower-case names of the model
includes(str, search) ==
    << str, search >> \in
        { << "food", "food" >>, << "rent", "rent" >>,
          << "housing", "housing" >>, << "groceries", "groceries" >>,
          << "parent care", "rent" >> }

\* A message: the template of the string, the category names and the
\* formatted numbers (toFixed) that the template interpolates, in order
Msg(key, names, values) == [key |-> key, names |-> names, values |-> values]

\* Array.prototype.find as the index of the first entry that matches, 0 if none
isHousing(c) ==
    \/ includes(toLowerCase(c.category), "housing")
    \/ includes(toLowerCase(c.category), "rent")

isFood(c) ==
    \/ includes(toLowerCase(c.category), "food")
    \/ includes(toLowerCase(c.category), "groceries")

findHousing(breakdown) ==
    LET hits == {k \in 1..Len(breakdown) : isHousing(breakdown[k])}
    IN  IF hits = {} THEN 0 ELSE CHOOSE k \in hits : \A j \in hits : k <= j

findFood(breakdown) ==
    LET hits == {k \in 1..Len(breakdown) : isFood(breakdown[k])}
    IN  IF hits = {} THEN 0 ELSE CHOOSE k \in hits : \A j \in hits : k <= j

\* savingsRecommendation with `<= 0` as the test of its first tier
savingsRecommendationZeroIsOverspending(a) ==
    IF ~GT(a.savingsRate, 0) THEN << Msg("overspending", << >>, << >>) >>
    ELSE IF LT(a.savingsRate, 10)
         THEN << Msg("savingsRateBelow10", << >>, << >>) >>
    ELSE IF GE(a.savingsRate, 20) THEN << Msg("saving20OrMore", << >>, << >>) >>
    ELSE << >>

savingsRecommendation(a) ==
    IF LT(a.savingsRate, 0) THEN << Msg("overspending", << >>, << >>) >>
    ELSE IF LT(a.savingsRate, 10)
         THEN << Msg("savingsRateBelow10", << >>, << >>) >>
    ELSE IF GE(a.savingsRate, 20) THEN << Msg("saving20OrMore", << >>, << >>) >>
    ELSE << >>

\* the housing rule that reports any matching category above 35%
housingRecommendationAnyMatch(a) ==
    LET breakdown == a.categoryBreakdown
        above == {k \in 1..Len(breakdown) :
                     isHousing(breakdown[k])
                     /\ GT(breakdown[k].percentage, 35)}
        h == IF above = {} THEN 0 ELSE CHOOSE k \in above : \A j \in above : k <= j
    IN  IF h # 0
        THEN << Msg("housingCosts", << >>,
                    << ToFixed(breakdown[h].percentage, 1) >>) >>
        ELSE << >>

\* `if (housingCat && housingCat.percentage > 35)`
housingRecommendation(a) ==
    LET breakdown == a.categoryBreakdown
        h == findHousing(breakdown)
    IN  IF h # 0 /\ GT(breakdown[h].percentage, 35)
        THEN << Msg("housingCosts", << >>,
                    << ToFixed(breakdown[h].percentage, 1) >>) >>
        ELSE << >>

\* the food rule with `>= 15` as its test
foodRecommendationFrom15(a) ==
    LET breakdown == a.categoryBreakdown
        f == findFood(breakdown)
    IN  IF f # 0 /\ GE(breakdown[f].percentage, 15)
        THEN << Msg("foodSpending", << >>,
                    << ToFixed(breakdown[f].percentage, 1) >>) >>
        ELSE << >>

\* `if (foodCat && foodCat.percentage > 15)`
foodRecommendation(a) ==
    LET breakdown == a.categoryBreakdown
        f == findFood(breakdown)
    IN  IF f # 0 /\ GT(breakdown[f].percentage, 15)
        THEN << Msg("foodSpending", << >>,
                    << ToFixed(breakdown[f].percentage, 1) >>) >>
        ELSE << >>

\* `if (topCategory && topCategory.percentage > 50)`, topCategory being
\* categoryBreakdown[0]
diversifyRecommendation(a) ==
    LET breakdown == a.categoryBreakdown
    IN  IF Len(breakdown) > 0 /\ GT(breakdown[1].percentage, 50)
        THEN << Msg("diversify", << breakdown[1].category >>,
                    << ToFixed(breakdown[1].percentage, 1) >>) >>
        ELSE << >>

\* generateRecommendations that pushes the savings-rate message last
generateRecommendationsSavingsLast(a) ==
    housingRecommendation(a) \o foodRecommendation(a)
        \o diversifyRecommendation(a) \o savingsRecommendation(a)

generateRecommendations(a) ==
    savingsRecommendation(a) \o housingRecommendation(a)
        \o foodRecommendation(a) \o diversifyRecommendation(a)

\* generateInsights that names every category of the breakdown
generateInsightsAllCategories(a) ==
    LET breakdown == a.categoryBreakdown
        income ==
            IF a.totalIncome > 0
            THEN << Msg("incomeExpenses", << >>,
                        << ToFixed(Div(a.totalIncome, 1), 2),
                           ToFixed(Div(a.totalExpenses, 1), 2) >>) >>
            ELSE << >>
        savings ==
            IF a.netSavings > 0
            THEN << Msg("netSavings", << >>,
                        << ToFixed(Div(a.netSavings, 1), 2),
                           ToFixed(a.savingsRate, 1) >>) >>
            ELSE IF a.netSavings < 0
            THEN << Msg("deficit", << >>,
                        << ToFixed(Div(Abs(a.netSavings), 1), 2) >>) >>
            ELSE << >>
        top ==
            IF Len(breakdown) > 0
            THEN << Msg("topCategories",
                        [k \in 1..Len(breakdown) |-> breakdown[k].category],
                        [k \in 1..Len(breakdown) |->
                            ToFixed(breakdown[k].percentage, 1)]) >>
            ELSE << >>
    IN  income \o savings \o top

generateInsights(a) ==
    LET breakdown == a.categoryBreakdown
        income ==
            IF a.totalIncome > 0
            THEN << Msg("incomeExpenses", << >>,
                        << ToFixed(Div(a.totalIncome, 1), 2),
                           ToFixed(Div(a.totalExpenses, 1), 2) >>) >>
            ELSE << >>
        savings ==
            IF a.netSavings > 0
            THEN << Msg("netSavings", << >>,
                        << ToFixed(Div(a.netSavings, 1), 2),
                           ToFixed(a.savingsRate, 1) >>) >>
            ELSE IF a.netSavings < 0
            THEN << Msg("deficit", << >>,
                        << ToFixed(Div(Abs(a.netSavings), 1), 2) >>) >>
            ELSE << >>
        top3 == SubSeq(breakdown, 1, IF Len(breakdown) < 3 THEN Len(breakdown)
                                     ELSE 3)
        top ==
            IF Len(breakdown) > 0
            THEN << Msg("topCategories",
                        [k \in 1..Len(top3) |-> top3[k].category],
                        [k \in 1..Len(top3) |->
                            ToFixed(top3[k].percentage, 1)]) >>
            ELSE << >>
    IN  income \o savings \o top

\* isLargeTransaction without the test of the type
isLargeTransactionOfAnyType(t, totalExpenses) == 5 * t.amount > totalExpenses

\* `t.amount > analysis.totalExpenses * 0.2`
isLargeTransaction(t, totalExpenses) ==
    t.type = "expense" /\ 5 * t.amount > totalExpenses

\* generateAlerts with `>= 10` as the test of the number of categories
generateAlertsFrom10(a, txs) ==
    LET largeTransactions ==
            {k \in 1..Len(txs) : isLargeTransaction(txs[k], a.totalExpenses)}
        large ==
            IF a.totalExpenses > 0 /\ largeTransactions # {}
            THEN << Msg("largeTransactions", << >>,
                        << Cardinality(largeTransactions),
                           ToFixed(Div(a.totalExpenses, 5), 2) >>) >>
            ELSE << >>
        negative ==
            IF a.netSavings < 0
            THEN << Msg("spendingExceedsIncome", << >>, << >>) >>
            ELSE << >>
        many ==
            IF Len(a.categoryBreakdown) >= 10
            THEN << Msg("manyCategories", << >>, << >>) >>
            ELSE << >>
    IN  large \o negative \o many

generateAlerts(a, txs) ==
    LET largeTransactions ==
            {k \in 1..Len(txs) : isLargeTransaction(txs[k], a.totalExpenses)}
        large ==
            IF a.totalExpenses > 0 /\ largeTransactions # {}
            THEN << Msg("largeTransactions", << >>,
                        << Cardinality(largeTransactions),
                           ToFixed(Div(a.totalExpenses, 5), 2) >>) >>
            ELSE << >>
        negative ==
            IF a.netSavings < 0
            THEN << Msg("spendingExceedsIncome", << >>, << >>) >>
            ELSE << >>
        many ==
            IF Len(a.categoryBreakdown) > 10
            THEN << Msg("manyCategories", << >>, << >>) >>
            ELSE << >>
    IN  large \o negative \o many

performFullAnalysis(balance, txs) ==
    LET baseAnalysis == analyzeBudget(balance, txs)
    IN  [totalIncome |-> baseAnalysis.totalIncome,
         totalExpenses |-> baseAnalysis.totalExpenses,
         netSavings |-> baseAnalysis.netSavings,
         savingsRate |-> baseAnalysis.savingsRate,
         categoryBreakdown |-> baseAnalysis.categoryBreakdown,
         recommendations |-> generateRecommendations(baseAnalysis),
         insights |-> generateInsights(baseAnalysis),
         alerts |-> generateAlerts(baseAnalysis, txs)]

\* JSON.stringify of a number: the number itself when it is finite, `null`
\* for NaN, Infinity and -Infinity.  null is the record with den = 0, num = 0.
JsonNull == [num |-> 0, den |-> 0]

JsonNumber(q) == IF IsFinite(q) THEN q ELSE JsonNull

\* JSON.stringify(summary, null, 2): the members of the object in the order
\* of its keys, each a pair of the key and the text of its value; an array is
\* the sequence of the texts of its elements
JSONstringifySummary(s) ==
    << << "income", JsonNumber(Div(s.income, 1)) >>,
       << "expenses", JsonNumber(Div(s.expenses, 1)) >>,
       << "savings", JsonNumber(Div(s.savings, 1)) >>,
       << "savingsRate", JsonNumber(s.savingsRate) >>,
       << "categories",
          [k \in 1..Len(s.categories) |->
              << << "category", s.categories[k].category >>,
                 << "amount", JsonNumber(Div(s.categories[k].amount, 1)) >>,
                 << "percentage", JsonNumber(s.categories[k].percentage) >> >>] >>,
       << "transactionCount", JsonNumber(Div(s.transactionCount, 1)) >> >>

\* the summary object of prepareBudgetDataForAI
budgetSummary(balance, txs) ==
    LET a == performFullAnalysis(balance, txs)
    IN  [income |-> a.totalIncome,
         expenses |-> a.totalExpenses,
         savings |-> a.netSavings,
         savingsRate |-> a.savingsRate,
         categories |->
            [k \in 1..Len(a.categoryBreakdown) |->
                [category |-> a.categoryBreakdown[k].category,
                 amount |-> a.categoryBreakdown[k].amount,
                 percentage |-> a.categoryBreakdown[k].percentage]],
         transactionCount |-> Len(txs)]

\* prepareBudgetDataForAI with the descriptions of the transactions added
prepareBudgetDataForAIWithDescriptions(balance, txs) ==
    JSONstringifySummary(budgetSummary(balance, txs))
        \o << << "descriptions", [k \in 1..Len(txs) |-> txs[k].description] >> >>

prepareBudgetDataForAI(balance, txs) ==
    JSONstringifySummary(budgetSummary(balance, txs))

----------------------------------------------------------------------------
(* Inputs of the analysis functions *)

SeqsUpTo(S, n) == UNION {[1..k -> S] : k \in 0..n}

May == YM(2024, 5)
June == YM(2024, 6)

\* 'transfer' stands for any type string other than 'income' and 'expense'
TxTypes == {"income", "expense", "transfer"}
TxAmounts == {-1, 0, 1, 4}
TxCategories == {"Food", "Rent"}

CalcTxs ==
    {Tx(ty, Date(2024, 5, 17), a, c) :
        ty \in TxTypes, a \in TxAmounts, c \in TxCategories}

Balances == {0, 50}

ProgressTxs ==
    { Tx("expense", Date(2024, 5, 17), 2, "Food"),
      Tx("expense", Date(2024, 5, 31), 4, "Food"),
      Tx("expense", Date(2024, 5, 3), 2, "food"),
      Tx("expense", Date(2024, 6, 1), 4, "Food"),
      Tx("income", Date(2024, 5, 17), 4, "Food") }

ProgressGoals ==
    { Goal("Food", 5, May), Goal("Food", 4, May), Goal("Food", 0, May),
      Goal("Rent", 5, May), Goal("Food", 5, June) }

QueryMonths == {May}

NoTotals == [incomeTotal |-> 0, expenseTotal |-> 0]

NoAnalysis ==
    [totalIncome |-> 0, totalExpenses |-> 0, netSavings |-> 0,
     savingsRate |-> Zero, categoryBreakdown |-> << >>]

----------------------------------------------------------------------------
(* The callers of the analysis functions *)

CallComputeTotals ==
    /\ called = "none"
    /\ called' = "computeTotals"
    /\ totals' = computeTotals(transactions)
    /\ UNCHANGED << transactions, startingBalance, goalsArg, monthArg,
                    analysis, progress >>
    /\ UNCHANGED << goalVars, extVars >>

CallAnalyzeBudget ==
    /\ called = "none"
    /\ \E balance \in Balances :
         /\ startingBalance' = balance
         /\ analysis' = analyzeBudget(balance, transactions)
    /\ called' = "analyzeBudget"
    /\ UNCHANGED << transactions, goalsArg, monthArg, totals, progress >>
    /\ UNCHANGED << goalVars, extVars >>

\* calculateBudgetProgress filtering the two lists it was passed in place
CallCalculateBudgetProgressInPlace ==
    /\ called = "none"
    /\ called' = "calculateBudgetProgress"
    /\ progress' = calculateBudgetProgress(transactions, goalsArg, monthArg)
    /\ LET IsMonthExpense(t) == isMonthExpense(t, monthArg)
           InMonth(g) == isMonthGoal(g, monthArg)
       IN  /\ transactions' = SelectSeq(transactions, IsMonthExpense)
           /\ goalsArg' = SelectSeq(goalsArg, InMonth)
    /\ UNCHANGED << startingBalance, monthArg, totals, analysis >>
    /\ UNCHANGED << goalVars, extVars >>

CallCalculateBudgetProgress ==
    /\ called = "none"
    /\ called' = "calculateBudgetProgress"
    /\ progress' = calculateBudgetProgress(transactions, goalsArg, monthArg)
    /\ UNCHANGED << transactions, startingBalance, goalsArg, monthArg,
                    totals, analysis >>
    /\ UNCHANGED << goalVars, extVars >>

CallGroupByCategory ==
    /\ called = "none"
    /\ called' = "groupByCategory"
    /\ \E type \in {"income", "expense"} :
         grouped' = groupByCategory(transactions, type)
    /\ UNCHANGED << transactions, startingBalance, goalsArg, monthArg,
                    totals, analysis, progress >>
    /\ UNCHANGED outsideLib

\* the transactions that performFullAnalysis is called on
FullTxs ==
    {Tx(ty, Date(2024, 5, 17), a, c) :
        ty \in {"income", "expense"}, a \in {1, 4},
        c \in {"Food", "Rent", "Job"}}

\* the transactions of the lists whose advice is checked: against the income
\* of 20 they put the savings rate, the shares of the categories and the
\* single amounts on and around the thresholds of the rules
AdviceTxs ==
    { Tx("income", Date(2024, 5, 17), 20, "Job"),
      Tx("expense", Date(2024, 5, 17), 7, "Rent"),
      Tx("expense", Date(2024, 5, 17), 13, "Housing"),
      Tx("expense", Date(2024, 5, 17), 17, "Housing"),
      Tx("expense", Date(2024, 5, 17), 3, "Food"),
      Tx("expense", Date(2024, 5, 17), 17, "Groceries"),
      Tx("expense", Date(2024, 5, 17), 18, "Fun"),
      Tx("expense", Date(2024, 5, 17), 12, "Fun") }

\* the example of the three demo amounts
ExampleList ==
    << Tx("income", Date(2024, 5, 17), 3200, "Job"),
       Tx("expense", Date(2024, 5, 17), 1200, "Housing"),
       Tx("expense", Date(2024, 5, 17), 150, "Food") >>

\* generateAlerts: `analysis.categoryBreakdown.length > 10`
CategoryLimit == 10

\* the name of the k-th of the distinct categories of a long list
CategoryName(k) ==
    CASE k = 1 -> "c1" [] k = 2 -> "c2" [] k = 3 -> "c3" [] k = 4 -> "c4"
      [] k = 5 -> "c5" [] k = 6 -> "c6" [] k = 7 -> "c7" [] k = 8 -> "c8"
      [] k = 9 -> "c9" [] k = 10 -> "c10" [] k = 11 -> "c11"

\* n expenses of n distinct categories, the first of them a large one
CategoryRun(n) ==
    [k \in 1..n |-> Tx("expense", Date(2024, 5, 17),
                       IF k = 1 THEN 5 ELSE 1, CategoryName(k))]

AdviceLists ==
    SeqsUpTo(AdviceTxs, MaxAdviceTx)
        \cup { ExampleList }
        \cup { CategoryRun(n) : n \in {CategoryLimit, CategoryLimit + 1} }
        \cup { << Tx("income", Date(2024, 5, 17), 20, "Job") >> \o CategoryRun(n) :
                  n \in {CategoryLimit, CategoryLimit + 1} }

NoFullAnalysis ==
    [totalIncome |-> 0, totalExpenses |-> 0, netSavings |-> 0,
     savingsRate |-> Zero, categoryBreakdown |-> << >>,
     recommendations |-> << >>, insights |-> << >>, alerts |-> << >>]

CallPerformFullAnalysis ==
    /\ called = "none"
    /\ \E balance \in Balances :
         /\ startingBalance' = balance
         /\ full' = performFullAnalysis(balance, transactions)
    /\ called' = "performFullAnalysis"
    /\ UNCHANGED << transactions, goalsArg, monthArg, totals, analysis,
                    progress, balanceB, fullB >>
    /\ UNCHANGED outsideFull

\* a second call on the same transactions, with any opening balance
CallPerformFullAnalysisAgain ==
    /\ called = "performFullAnalysis"
    /\ \E balance \in Balances :
         /\ balanceB' = balance
         /\ fullB' = performFullAnalysis(balance, transactions)
    /\ called' = "performFullAnalysisAgain"
    /\ UNCHANGED << transactions, startingBalance, goalsArg, monthArg, totals,
                    analysis, progress, full >>
    /\ UNCHANGED outsideFull

\* the transactions that prepareBudgetDataForAI is called on: three pairs
\* that agree on type, amount and category and differ in everything else
AITxs ==
    { Transaction("t1", "expense", Date(2024, 5, 17), "15th-21st", 1,
                  "Lunch", "Food"),
      Transaction("t2", "expense", Date(2024, 6, 2), "1st-7th", 1,
                  "Pharmacy", "Food"),
      Transaction("t3", "expense", Date(2024, 5, 1), "1st-7th", 4,
                  "Flat", "Rent"),
      Transaction("t4", "expense", Date(2024, 6, 9), "8th-14th", 4,
                  "Clinic", "Rent"),
      Transaction("t5", "income", Date(2024, 5, 28), "22nd-28th", 4,
                  "Salary", "Job"),
      Transaction("t6", "income", Date(2024, 6, 28), "22nd-28th", 4,
                  "Alimony", "Job") }

CallPrepareBudgetDataForAI ==
    /\ called = "none"
    /\ \E balance \in Balances :
         /\ startingBalance' = balance
         /\ summary' = prepareBudgetDataForAI(balance, transactions)
    /\ called' = "prepareBudgetDataForAI"
    /\ UNCHANGED << transactions, goalsArg, monthArg, totals, analysis,
                    progress, transactionsB, summaryB >>
    /\ UNCHANGED << fullVars, outsideAI >>

\* a second call, on the other transaction list
CallPrepareBudgetDataForAIAgain ==
    /\ called = "prepareBudgetDataForAI"
    /\ summaryB' = prepareBudgetDataForAI(startingBalance, transactionsB)
    /\ called' = "prepareBudgetDataForAIAgain"
    /\ UNCHANGED << transactions, startingBalance, goalsArg, monthArg, totals,
                    analysis, progress, transactionsB, summary >>
    /\ UNCHANGED << fullVars, outsideAI >>

----------------------------------------------------------------------------
(* BudgetGoals, src/src/components/Charts/RunningBalanceChart.tsx *)

\* what the user can type into the form
FormCategories == {"", "Food", "Rent"}
FormLimits == {"", "-3", "5", "7"}

\* Number(str) for the numerals of the model; "" converts to 0.  A text that
\* is no numeral converts to NaN: NumberIsNaN holds of it, Number has no value
Number(str) ==
    CASE str = "" -> 0
      [] str = "0" -> 0
      [] str = "-3" -> -3
      [] str = "5" -> 5
      [] str = "7" -> 7
      [] str = "150" -> 150
      [] str = "1200" -> 1200
      [] str = "3200" -> 3200

EmptyForm == [category |-> "", limit |-> ""]

NoOp == [op |-> "none", category |-> "", limit |-> 0, month |-> YM(0, 0),
         next |-> YM(0, 0)]

\* goals.findIndex(pred), counted from 1; 0 when no element satisfies pred
FindIndex(gs, category, month) ==
    LET hits == {i \in 1..Len(gs) : gs[i].category = category /\ gs[i].month = month}
    IN  IF hits = {} THEN 0 ELSE CHOOSE i \in hits : \A j \in hits : i <= j

\* the goals of the current month, which the component renders as progress bars
currentMonthGoals(gs, currentMonth) ==
    LET InMonth(g) == g.month = currentMonth
    IN  SelectSeq(gs, InMonth)

\* onChange of the two form inputs
setNewGoalCategory ==
    /\ showSetup
    /\ \E c \in FormCategories : newGoal' = [newGoal EXCEPT !.category = c]
    /\ UNCHANGED << goals, showSetup, now, prevGoals, lastOp >>
    /\ UNCHANGED << calcVars, extVars >>

setNewGoalLimit ==
    /\ showSetup
    /\ \E l \in FormLimits : newGoal' = [newGoal EXCEPT !.limit = l]
    /\ UNCHANGED << goals, showSetup, now, prevGoals, lastOp >>
    /\ UNCHANGED << calcVars, extVars >>

\* onClick of 'Set Budget Goals' / 'Manage Goals' / 'Hide Setup'
toggleSetup ==
    /\ showSetup' = ~showSetup
    /\ UNCHANGED << goals, newGoal, now, prevGoals, lastOp >>
    /\ UNCHANGED << calcVars, extVars >>

\* addGoal without the update of an existing goal
addGoalAlwaysAppend(gs, category, limitNum, currentMonth) ==
    Append(gs, Goal(category, limitNum, currentMonth))

\* the goals after handleAddGoal accepted the form
addGoal(gs, category, limitNum, currentMonth) ==
    LET existingIndex == FindIndex(gs, category, currentMonth)
    IN  IF existingIndex >= 1
        THEN [gs EXCEPT ![existingIndex] = Goal(category, limitNum, currentMonth)]
        ELSE Append(gs, Goal(category, limitNum, currentMonth))

handleAddGoal ==
    /\ showSetup
    /\ LET currentMonth == getCurrentMonth(now)
           limitNum == Number(newGoal.limit)
       IN  IF newGoal.category = "" \/ limitNum = 0 \/ limitNum <= 0
           THEN UNCHANGED << goals, newGoal, prevGoals, lastOp >>
           ELSE /\ Len(addGoal(goals, newGoal.category, limitNum, currentMonth)) <= MaxGoals
                /\ goals' = addGoal(goals, newGoal.category, limitNum, currentMonth)
                /\ newGoal' = EmptyForm
                /\ prevGoals' = goals
                /\ lastOp' = [op |-> "handleAddGoal",
                              category |-> newGoal.category,
                              limit |-> limitNum,
                              month |-> currentMonth,
                              next |-> currentMonth]
    /\ UNCHANGED << showSetup, now >>
    /\ UNCHANGED << calcVars, extVars >>

\* the goals after handleRemoveGoal(category)
removeGoal(gs, category, currentMonth) ==
    LET Keep(g) == ~(g.category = category /\ g.month = currentMonth)
    IN  SelectSeq(gs, Keep)

handleRemoveGoal ==
    /\ LET currentMonth == getCurrentMonth(now)
           shown == currentMonthGoals(goals, currentMonth)
       IN  \E k \in 1..Len(shown) :
             /\ goals' = removeGoal(goals, shown[k].category, currentMonth)
             /\ prevGoals' = goals
             /\ lastOp' = [op |-> "handleRemoveGoal",
                           category |-> shown[k].category,
                           limit |-> 0,
                           month |-> currentMonth,
                           next |-> currentMonth]
    /\ UNCHANGED << newGoal, showSetup, now >>
    /\ UNCHANGED << calcVars, extVars >>

\* handleResetMonthlyGoals: nextMonthStr
nextMonthStrOf(t) == Slice7(toISOString(setMonth(t, getMonth(t) + 1)))

\* copyGoals that skips a goal whose category already has a goal in the target month
copyGoalsDedup(gs, currentMonth, nextMonthStr) ==
    LET Fresh(g) ==
            /\ g.month = currentMonth
            /\ ~\E i \in 1..Len(gs) :
                  gs[i].category = g.category /\ gs[i].month = nextMonthStr
        current == SelectSeq(gs, Fresh)
        newMonthGoals == [k \in 1..Len(current) |->
                            [current[k] EXCEPT !.month = nextMonthStr]]
    IN  gs \o newMonthGoals

\* the goals after handleResetMonthlyGoals was confirmed
copyGoals(gs, currentMonth, nextMonthStr) ==
    LET current == currentMonthGoals(gs, currentMonth)
        newMonthGoals == [k \in 1..Len(current) |->
                            [current[k] EXCEPT !.month = nextMonthStr]]
    IN  gs \o newMonthGoals

handleResetMonthlyGoals ==
    /\ showSetup
    /\ Len(currentMonthGoals(goals, getCurrentMonth(now))) > 0
    /\ \E confirm \in BOOLEAN :
         LET currentMonth == getCurrentMonth(now)
             nextMonthStr == nextMonthStrOf(now)
         IN  IF confirm
             THEN /\ Len(copyGoals(goals, currentMonth, nextMonthStr)) <= MaxGoals
                  /\ goals' = copyGoals(goals, currentMonth, nextMonthStr)
                  /\ prevGoals' = goals
                  /\ lastOp' = [op |-> "handleResetMonthlyGoals",
                                category |-> "",
                                limit |-> 0,
                                month |-> currentMonth,
                                next |-> nextMonthStr]
             ELSE UNCHANGED << goals, prevGoals, lastOp >>
    /\ UNCHANGED << newGoal, showSetup, now >>
    /\ UNCHANGED << calcVars, extVars >>

\* time passes: a later render reads a later `new Date()`
Before(a, b) ==
    \/ a.year < b.year
    \/ a.year = b.year /\ a.month < b.month
    \/ a.year = b.year /\ a.month = b.month /\ a.day < b.day

ClockInstants ==
    {Instant(2024, 1, 15, 0), Instant(2024, 2, 10, 0)}

AllInstants ==
    {Instant(y, m, d, sh) :
        y \in {2023, 2024}, m \in 1..12, d \in 1..31, sh \in {-1, 0, 1}}
    \ {t \in [year : {2023, 2024}, month : 1..12, day : 29..31, shift : {-1, 0, 1}] :
         t.day > DaysInMonth(t.year, t.month)}

advanceClock ==
    /\ \E t \in ClockInstants : Before(now, t) /\ now' = t
    /\ UNCHANGED << goals, newGoal, showSetup, prevGoals, lastOp >>
    /\ UNCHANGED << calcVars, extVars >>

----------------------------------------------------------------------------
(* App, src/unnamed/part_001 *)

NumberIsNaN(str) == str = "abc"

\* String(t.amount)
String(n) ==
    CASE n = 5 -> "5"
      [] n = 7 -> "7"
      [] n = 150 -> "150"
      [] n = 1200 -> "1200"
      [] n = 3200 -> "3200"

\* nanoid(): the k-th id that it returns
nanoid(k) ==
    CASE k = 1 -> "id1"
      [] k = 2 -> "id2"
      [] k = 3 -> "id3"

demoTransactions ==
    << Transaction("demo1", "income", toISOString(Instant(2024, 1, 15, 0)),
                   "1st-7th", 3200, "Salary", "Job"),
       Transaction("demo2", "expense", toISOString(Instant(2024, 1, 15, 0)),
                   "1st-7th", 1200, "Rent", "Housing"),
       Transaction("demo3", "expense", toISOString(Instant(2024, 1, 15, 0)),
                   "1st-7th", 150, "Groceries", "Food") >>

InitialForm ==
    [type |-> "expense", description |-> "", category |-> "", amount |-> ""]

InitialEditForm == [description |-> "", category |-> "", amount |-> ""]

\* what the user has typed into the new-transaction form before a submit
TypedForms ==
    { [type |-> "income", description |-> "Gift", category |-> "",
       amount |-> "7"],
      [type |-> "expense", description |-> "", category |-> "",
       amount |-> "0"],
      [type |-> "expense", description |-> "Gift", category |-> "",
       amount |-> "-3"],
      [type |-> "income", description |-> "", category |-> "Fun",
       amount |-> "abc"] }

\* what the user has typed into the row that is being edited
TypedEditForms ==
    { [description |-> "Gift", category |-> "Fun", amount |-> a] :
        a \in {"0", "-3", "abc", "5"} }

NoAppOp == "none"

\* the onChange handlers of the four inputs of the form, taken together
fillForm ==
    /\ \E typed \in TypedForms : typed # form /\ form' = typed
    /\ lastAppOp' = "setForm"
    /\ UNCHANGED << editingId, editForm, nanoidCount >>
    /\ UNCHANGED << calcVars, outsideApp >>

\* `!amountNum || amountNum <= 0` with the test of zero left out
isRejectedAmountZeroAllowed(str) ==
    NumberIsNaN(str) \/ Number(str) < 0

\* addTransaction, saveEdit: `!amountNum || amountNum <= 0`
isRejectedAmount(str) ==
    NumberIsNaN(str) \/ Number(str) = 0 \/ Number(str) <= 0

addTransaction ==
    /\ lastAppOp' = "addTransaction"
    /\ IF isRejectedAmount(form.amount)
       THEN UNCHANGED << transactions, form, nanoidCount >>
       ELSE /\ nanoidCount < MaxAdds
            /\ nanoidCount' = nanoidCount + 1
            /\ transactions' = Append(transactions,
                  Transaction(nanoid(nanoidCount + 1), form.type,
                              toISOString(now), "1st-7th",
                              Number(form.amount),
                              IF form.description # "" THEN form.description
                              ELSE "Entry",
                              IF form.category # "" THEN form.category
                              ELSE IF form.type = "income"
                                   THEN "General Income"
                                   ELSE "General Expense"))
            /\ form' = [form EXCEPT !.description = "", !.category = "",
                                    !.amount = ""]
    /\ UNCHANGED << editingId, editForm >>
    /\ UNCHANGED << startingBalance, goalsArg, monthArg, called, totals,
                    analysis, progress >>
    /\ UNCHANGED outsideApp

\* Delete is offered by the rows that are not being edited
deleteTransaction ==
    /\ \E i \in 1..Len(transactions) :
         /\ transactions[i].id # editingId
         /\ LET Kept(tx) == tx.id # transactions[i].id
            IN  transactions' = SelectSeq(transactions, Kept)
    /\ lastAppOp' = "deleteTransaction"
    /\ UNCHANGED << form, editingId, editForm, nanoidCount >>
    /\ UNCHANGED << startingBalance, goalsArg, monthArg, called, totals,
                    analysis, progress >>
    /\ UNCHANGED outsideApp

\* Edit is offered by the rows that are not being edited
startEdit ==
    /\ \E i \in 1..Len(transactions) :
         LET t == transactions[i]
         IN  /\ t.id # editingId
             /\ editingId' = t.id
             /\ editForm' = [description |-> t.description,
                             category |-> t.category,
                             amount |-> String(t.amount)]
    /\ lastAppOp' = "startEdit"
    /\ UNCHANGED << form, nanoidCount >>
    /\ UNCHANGED << calcVars, outsideApp >>

\* the onChange handlers of the three inputs of the row, taken together
fillEditForm ==
    /\ editingId # ""
    /\ \E typed \in TypedEditForms : typed # editForm /\ editForm' = typed
    /\ lastAppOp' = "setEditForm"
    /\ UNCHANGED << form, editingId, nanoidCount >>
    /\ UNCHANGED << calcVars, outsideApp >>

\* Save is offered by the row that is being edited: saveEdit(editingId)
saveEdit ==
    /\ editingId # ""
    /\ lastAppOp' = "saveEdit"
    /\ IF isRejectedAmount(editForm.amount)
       THEN UNCHANGED << transactions, editingId >>
       ELSE /\ transactions' =
                  [k \in 1..Len(transactions) |->
                      IF transactions[k].id = editingId
                      THEN [transactions[k] EXCEPT
                               !.description = editForm.description,
                               !.category = editForm.category,
                               !.amount = Number(editForm.amount)]
                      ELSE transactions[k]]
            /\ editingId' = ""
    /\ UNCHANGED << form, editForm, nanoidCount >>
    /\ UNCHANGED << startingBalance, goalsArg, monthArg, called, totals,
                    analysis, progress >>
    /\ UNCHANGED outsideApp

cancelEdit ==
    /\ editingId # ""
    /\ editingId' = ""
    /\ lastAppOp' = "cancelEdit"
    /\ UNCHANGED << form, editForm, nanoidCount >>
    /\ UNCHANGED << calcVars, outsideApp >>

\* the sequence without its i-th element
RemoveAt(seq, i) == SubSeq(seq, 1, i - 1) \o SubSeq(seq, i + 1, Len(seq))

----------------------------------------------------------------------------
(* FinancialAdvisorChat, src/unnamed/part_000 *)

\* what the text field can hold: typed text, blank text, a quick question
InputTexts == {"", "  ", " hi ", "Is my spending healthy?"}

\* String.prototype.trim on the texts of the model
trim(str) ==
    CASE str = "  " -> ""
      [] str = " hi " -> "hi"
      [] OTHER -> str

\* a ChatMessage without its timestamp
ChatMessage(role, content) == [role |-> role, content |-> content]

\* how `await fetch(...)` ends: it throws, or it gives a response
FetchOutcomes == {"threw", "status429", "status500", "ok"}

\* how `await resp.json()` ends for a response with an OK status
JsonOutcomes == {"threw", "okFalse", "okFalseNoError", "okTrue"}

\* the content of the message of the catch block, `Error: ${msg}`
ErrorContent(kind) ==
    CASE kind = "threw" -> "Error: Failed to fetch"
      [] kind = "status429" -> "Error: Chat failed (429)"
      [] kind = "status500" -> "Error: Chat failed (500)"
      [] kind = "jsonThrew" -> "Error: Unexpected end of JSON input"
      [] kind = "okFalse" -> "Error: Rate limit exceeded"
      [] kind = "okFalseNoError" -> "Error: Chat failed"

\* onChange of the text field and onClick of a quick question
setInput ==
    /\ \E text \in InputTexts : text # input /\ input' = text
    /\ lastSendOp' = "setInput"
    /\ UNCHANGED << messages, loading, pending, sendsLeft >>
    /\ UNCHANGED outsideAdvisor

\* `!input.trim() || loading` without the test of loading
isIgnoredSendBlankOnly(text, busy) == trim(text) = ""

\* sendMessage: `if (!input.trim() || loading) return`
isIgnoredSend(text, busy) == trim(text) = "" \/ busy

\* sendMessage up to `await fetch(...)`
sendMessage ==
    /\ lastSendOp' = "sendMessage"
    /\ IF isIgnoredSend(input, loading)
       THEN UNCHANGED << messages, input, loading, pending, sendsLeft >>
       ELSE /\ sendsLeft > 0
            /\ sendsLeft' = sendsLeft - 1
            /\ messages' = Append(messages, ChatMessage("user", trim(input)))
            /\ input' = ""
            /\ loading' = TRUE
            /\ pending' = Append(pending, "fetch")
    /\ UNCHANGED outsideAdvisor

\* ... from the end of the fetch to `await resp.json()`, or through the
\* catch and the finally block when the fetch threw or the status is not OK
fetchSettles ==
    /\ \E i \in 1..Len(pending), outcome \in FetchOutcomes :
         /\ pending[i] = "fetch"
         /\ IF outcome = "ok"
            THEN /\ pending' = [pending EXCEPT ![i] = "json"]
                 /\ UNCHANGED << messages, loading >>
            ELSE /\ pending' = RemoveAt(pending, i)
                 /\ messages' = Append(messages,
                       ChatMessage("assistant", ErrorContent(outcome)))
                 /\ loading' = FALSE
    /\ lastSendOp' = "fetchSettles"
    /\ UNCHANGED << input, sendsLeft >>
    /\ UNCHANGED outsideAdvisor

\* ... from the end of resp.json() through the finally block
jsonSettles ==
    /\ \E i \in 1..Len(pending), outcome \in JsonOutcomes :
         /\ pending[i] = "json"
         /\ pending' = RemoveAt(pending, i)
         /\ messages' = Append(messages,
               IF outcome = "okTrue"
               THEN ChatMessage("assistant", "reply")
               ELSE ChatMessage("assistant",
                       ErrorContent(IF outcome = "threw" THEN "jsonThrew"
                                    ELSE outcome)))
         /\ loading' = FALSE
    /\ lastSendOp' = "jsonSettles"
    /\ UNCHANGED << input, sendsLeft >>
    /\ UNCHANGED outsideAdvisor

----------------------------------------------------------------------------
(* The server, src/server/index.ts *)

\* checkRateLimit: `now - time < 60000` and `recentRequests.length >= 5`
WindowMs == 60000
RateLimit == 5

\* the values of the x-session-id header; "" is a request without the header
SessionHeaders == {"", "s1"}

\* `req.headers['x-session-id'] as string || 'default'`
sessionIdOf(header) == IF header = "" THEN "default" ELSE header

Sessions == {sessionIdOf(h) : h \in SessionHeaders}

\* checkRateLimit with `>` as the test of the number of recent requests
checkRateLimitAboveLimit(limiter, sessionId, t) ==
    LET requests == limiter[sessionId]
        IsRecent(time) == t - time < WindowMs
        recentRequests == SelectSeq(requests, IsRecent)
    IN  IF Len(recentRequests) > RateLimit
        THEN [allowed |-> FALSE, limiter |-> limiter]
        ELSE [allowed |-> TRUE,
              limiter |-> [limiter EXCEPT ![sessionId] =
                              Append(recentRequests, t)]]

\* checkRateLimit(sessionId) when Date.now() is t: whether the request is
\* admitted, and the map afterwards
checkRateLimit(limiter, sessionId, t) ==
    LET requests == limiter[sessionId]
        IsRecent(time) == t - time < WindowMs
        recentRequests == SelectSeq(requests, IsRecent)
    IN  IF Len(recentRequests) >= RateLimit
        THEN [allowed |-> FALSE, limiter |-> limiter]
        ELSE [allowed |-> TRUE,
              limiter |-> [limiter EXCEPT ![sessionId] =
                              Append(recentRequests, t)]]

NoChatResponse == [session |-> "", time |-> 0, status |-> 0, ok |-> FALSE]

\* POST /api/chat.  hasMessage: the body has a non-empty string `message`;
\* providerFails: the call of the provider throws or answers with an error
\* status.  What follows the rate limit check reads and writes no server
\* state, so the handler is one step.
postChat ==
    /\ \E header \in SessionHeaders, hasMessage \in BOOLEAN :
         LET sessionId == sessionIdOf(header)
             limit == checkRateLimit(chatRateLimiter, sessionId, nowMs)
             Respond(status) ==
                 chatResponse' = [session |-> sessionId, time |-> nowMs,
                                  status |-> status, ok |-> status = 200]
         IN  /\ chatLeft[sessionId] > 0
             /\ chatLeft' = [chatLeft EXCEPT ![sessionId] = @ - 1]
             /\ IF ~hasMessage
                THEN /\ Respond(400)
                     /\ UNCHANGED << chatRateLimiter, admitted >>
                ELSE /\ chatRateLimiter' = limit.limiter
                     /\ IF ~limit.allowed
                        THEN /\ Respond(429)
                             /\ UNCHANGED admitted
                        ELSE /\ admitted' = [admitted EXCEPT ![sessionId] =
                                                Append(@, nowMs)]
                             /\ IF ~keyPresent THEN Respond(200)
                                ELSE \E providerFails \in BOOLEAN :
                                        IF providerFails THEN Respond(500)
                                        ELSE Respond(200)
    /\ UNCHANGED << keyPresent, clientBodies, nowMs, analyzeVars, reportVars >>
    /\ UNCHANGED outsideServer

\* A request body as express.json() parses it.  startingBalance is a number,
\* kept as a fraction (a numeral such as 1e999 parses to Infinity, [1, 0]),
\* or something that is no number; transactions is an array or is not.
Body(isNumber, balance, isArray, txs) ==
    [isNumber |-> isNumber, startingBalance |-> balance,
     isArray |-> isArray, transactions |-> txs]

Infinity == [num |-> 1, den |-> 0]
MinusInfinity == [num |-> -1, den |-> 0]

SalaryAndFlat ==
    << Transaction("t1", "income", Date(2024, 5, 1), "1st-7th", 4,
                   "Salary", "Job"),
       Transaction("t2", "expense", Date(2024, 5, 3), "1st-7th", 1,
                   "Flat", "Rent") >>

ValidBodies ==
    { Body(TRUE, Div(0, 1), TRUE, SalaryAndFlat),
      Body(TRUE, Infinity, TRUE, SalaryAndFlat),
      Body(TRUE, MinusInfinity, TRUE, SalaryAndFlat),
      Body(TRUE, Div(0, 1), TRUE, << >>) }

InvalidBodies ==
    { Body(FALSE, Zero, TRUE, SalaryAndFlat),
      Body(TRUE, Div(0, 1), FALSE, << >>) }

RequestBodies == ValidBodies \cup InvalidBodies

NoBody == Body(FALSE, Zero, FALSE, << >>)

\* `typeof startingBalance !== 'number' || !Array.isArray(transactions)`
isInvalidBody(body) == ~body.isNumber \/ ~body.isArray

\* JSON.stringify({ startingBalance, transactions }): a number that is not
\* finite is written as null; the transactions of the model hold finite
\* numbers and strings only, which are written as they are
cacheKeyOf(body) ==
    [startingBalance |-> JsonNumber(body.startingBalance),
     transactions |-> body.transactions]

\* analysisCache[cacheKey] = data
CachePut(cache, key, data) ==
    [k \in DOMAIN cache \cup {key} |-> IF k = key THEN data ELSE cache[k]]

\* what the provider does with one request
ProviderOutcomes ==
    { [kind |-> k, items |-> << >>] :
        k \in {"threw", "notOk", "emptyContent", "unparseable", "nonArray",
               "array"} }
    \cup { [kind |-> "array",
            items |-> << Msg("ai", << "Cook at home" >>, << >>) >>] }

\* enrich with the recommendations of the provider put in place of the local ones
enrichReplacing(baseAnalysis, outcome) ==
    IF outcome.kind = "array"
    THEN [baseAnalysis EXCEPT !.recommendations = outcome.items]
    ELSE baseAnalysis

\* analyze-budget, from the fetch to the end of its inner try: the analysis
\* is changed only when the content parses to an array, which is appended
enrich(baseAnalysis, outcome) ==
    IF outcome.kind = "array"
    THEN [baseAnalysis EXCEPT !.recommendations = @ \o outcome.items]
    ELSE baseAnalysis

NoAnalyzeResponse ==
    [body |-> NoBody, status |-> 0, ok |-> FALSE, cached |-> FALSE,
     data |-> NoFullAnalysis]

AnalyzeResponse(body, status, cached, data) ==
    [body |-> body, status |-> status, ok |-> status = 200,
     cached |-> cached, data |-> data]

\* the record of the first responses, after `body` was answered with `data`
FirstPut(first, body, data) ==
    IF body \in DOMAIN first THEN first
    ELSE [b \in DOMAIN first \cup {body} |->
             IF b = body THEN data ELSE first[b]]

\* POST /api/analyze-budget up to its first await (the dynamic import)
postAnalyzeBudget ==
    /\ analyzeLeft > 0
    /\ analyzeLeft' = analyzeLeft - 1
    /\ \E body \in clientBodies :
         LET cacheKey == cacheKeyOf(body)
         IN  IF isInvalidBody(body)
             THEN /\ analyzeResponse' =
                        AnalyzeResponse(body, 400, FALSE, NoFullAnalysis)
                  /\ UNCHANGED << inflight, firstAnswered >>
             ELSE IF cacheKey \in DOMAIN analysisCache
             THEN /\ analyzeResponse' =
                        AnalyzeResponse(body, 200, TRUE, analysisCache[cacheKey])
                  /\ firstAnswered' =
                        FirstPut(firstAnswered, body, analysisCache[cacheKey])
                  /\ UNCHANGED inflight
             ELSE /\ Len(inflight) < MaxInflight
                  /\ inflight' = Append(inflight,
                        [stage |-> "import", body |-> body,
                         keyPresent |-> keyPresent,
                         baseAnalysis |-> NoFullAnalysis])
                  /\ UNCHANGED << analyzeResponse, firstAnswered >>
    /\ UNCHANGED << keyPresent, clientBodies, chatVars, analysisCache,
                    computedFor, reportVars >>
    /\ UNCHANGED outsideServer

\* ... from the import to the fetch, or to the response when no key is set
analyzeBudgetComputes ==
    /\ \E i \in 1..Len(inflight) :
         /\ inflight[i].stage = "import"
         /\ LET h == inflight[i]
                baseAnalysis ==
                    performFullAnalysis(h.body.startingBalance,
                                        h.body.transactions)
            IN  IF ~h.keyPresent
                THEN /\ analysisCache' =
                           CachePut(analysisCache, cacheKeyOf(h.body),
                                    baseAnalysis)
                     /\ computedFor' = computedFor \cup {h.body}
                     /\ firstAnswered' =
                           FirstPut(firstAnswered, h.body, baseAnalysis)
                     /\ analyzeResponse' =
                           AnalyzeResponse(h.body, 200, FALSE, baseAnalysis)
                     /\ inflight' = RemoveAt(inflight, i)
                ELSE /\ inflight' = [inflight EXCEPT ![i] =
                           [h EXCEPT !.stage = "fetch",
                                     !.baseAnalysis = baseAnalysis]]
                     /\ UNCHANGED << analysisCache, computedFor,
                                     firstAnswered, analyzeResponse >>
    /\ UNCHANGED << keyPresent, clientBodies, chatVars, analyzeLeft,
                    reportVars >>
    /\ UNCHANGED outsideServer

\* ... from the answer (or the failure) of the provider to the response
analyzeBudgetResponds ==
    /\ \E i \in 1..Len(inflight), outcome \in ProviderOutcomes :
         /\ inflight[i].stage = "fetch"
         /\ LET h == inflight[i]
                data == enrich(h.baseAnalysis, outcome)
            IN  /\ analysisCache' =
                      CachePut(analysisCache, cacheKeyOf(h.body), data)
                /\ computedFor' = computedFor \cup {h.body}
                /\ firstAnswered' = FirstPut(firstAnswered, h.body, data)
                /\ analyzeResponse' = AnalyzeResponse(h.body, 200, FALSE, data)
                /\ inflight' = RemoveAt(inflight, i)
    /\ UNCHANGED << keyPresent, clientBodies, chatVars, analyzeLeft,
                    reportVars >>
    /\ UNCHANGED outsideServer

\* OPENROUTER_API_KEY is written to or taken out of the .env file, which
\* every handler reloads (dotenv.config({ override: true }))
configureKey ==
    /\ keyPresent' = ~keyPresent
    /\ UNCHANGED << clientBodies, chatVars, analyzeVars, reportVars >>
    /\ UNCHANGED outsideServer

\* monthly-report: the tiers of financialHealth
financialHealthOf(savingsRate) ==
    IF GE(savingsRate, 20) THEN "excellent"
    ELSE IF GE(savingsRate, 10) THEN "good"
    ELSE IF LT(savingsRate, 0) THEN "needs-attention"
    ELSE "fair"

Take(seq, n) == SubSeq(seq, 1, IF Len(seq) < n THEN Len(seq) ELSE n)

\* monthly-report: baseReport without its two renderings of the clock
baseReportOf(a) ==
    [summary |-> Msg("local", << >>,
                     << ToFixed(Div(a.totalIncome, 1), 2),
                        ToFixed(Div(a.totalExpenses, 1), 2),
                        ToFixed(a.savingsRate, 1) >>),
     financialHealth |-> financialHealthOf(a.savingsRate),
     keyMetrics |-> [income |-> a.totalIncome, expenses |-> a.totalExpenses,
                     savings |-> a.netSavings, savingsRate |-> a.savingsRate],
     categoryInsights |->
        [k \in 1..Len(Take(a.categoryBreakdown, 5)) |->
            [category |-> a.categoryBreakdown[k].category,
             spent |-> a.categoryBreakdown[k].amount,
             trend |-> "stable",
             recommendation |->
                IF GT(a.categoryBreakdown[k].percentage, 30)
                THEN "reduce" ELSE "keepUp"]],
     actionItems |-> Take(a.recommendations, 5),
     model |-> "local-analysis"]

NoReportResponse ==
    [body |-> NoBody, status |-> 0, ok |-> FALSE,
     data |-> baseReportOf(NoFullAnalysis)]

\* POST /api/monthly-report.  aiSummary: the provider answers with a status
\* that is OK and a content that is not empty.  The handler reads and writes
\* no server state after its first statement, so it is one step.
postMonthlyReport ==
    /\ reportLeft > 0
    /\ reportLeft' = reportLeft - 1
    /\ \E body \in clientBodies, aiSummary \in BOOLEAN :
         IF isInvalidBody(body)
         THEN reportResponse' =
                 [body |-> body, status |-> 400, ok |-> FALSE,
                  data |-> baseReportOf(NoFullAnalysis)]
         ELSE LET a == performFullAnalysis(body.startingBalance,
                                           body.transactions)
                  baseReport == baseReportOf(a)
              IN  reportResponse' =
                     [body |-> body, status |-> 200, ok |-> TRUE,
                      data |->
                         IF keyPresent /\ aiSummary
                         THEN [baseReport EXCEPT
                                  !.summary = Msg("ai", << >>, << >>),
                                  !.model = "provider"]
                         ELSE baseReport]
    /\ UNCHANGED << keyPresent, clientBodies, chatVars, analyzeVars >>
    /\ UNCHANGED outsideServer

\* the instants at which requests arrive, in ms after the first one
ChatInstants == {0, 1, 60000}

\* time passes
tick ==
    /\ \E t \in ChatInstants : t > nowMs /\ nowMs' = t
    /\ UNCHANGED << keyPresent, clientBodies, chatRateLimiter, chatLeft,
                    admitted, chatResponse, analyzeVars, reportVars >>
    /\ UNCHANGED outsideServer

----------------------------------------------------------------------------
(* Specifications *)

CalcIdle ==
    /\ transactions = << >>
    /\ startingBalance = 0
    /\ goalsArg = << >>
    /\ monthArg = May
    /\ called = "none"
    /\ totals = NoTotals
    /\ analysis = NoAnalysis
    /\ progress = << >>

GoalsIdle ==
    /\ goals = << >>
    /\ newGoal = EmptyForm
    /\ showSetup = FALSE
    /\ now = Instant(2024, 1, 15, 0)
    /\ prevGoals = << >>
    /\ lastOp = NoOp

FullIdle ==
    /\ full = NoFullAnalysis
    /\ balanceB = 0
    /\ fullB = NoFullAnalysis

LibIdle == grouped = << >>

AIIdle ==
    /\ transactionsB = << >>
    /\ summary = << >>
    /\ summaryB = << >>

ChatIdle ==
    /\ nowMs = 0
    /\ chatRateLimiter = [id \in Sessions |-> << >>]
    /\ chatLeft = [id \in Sessions |-> 0]
    /\ admitted = [id \in Sessions |-> << >>]
    /\ chatResponse = NoChatResponse

AnalyzeIdle ==
    /\ analysisCache = << >>
    /\ inflight = << >>
    /\ analyzeLeft = 0
    /\ computedFor = {}
    /\ firstAnswered = << >>
    /\ analyzeResponse = NoAnalyzeResponse

ReportIdle ==
    /\ reportLeft = 0
    /\ reportResponse = NoReportResponse

ServerIdle ==
    /\ keyPresent = FALSE
    /\ clientBodies = {}
    /\ ChatIdle
    /\ AnalyzeIdle
    /\ ReportIdle

AppIdle ==
    /\ form = InitialForm
    /\ editingId = ""
    /\ editForm = InitialEditForm
    /\ nanoidCount = 0
    /\ lastAppOp = NoAppOp

AdvisorIdle ==
    /\ messages = << >>
    /\ input = ""
    /\ loading = FALSE
    /\ pending = << >>
    /\ sendsLeft = 0
    /\ lastSendOp = "none"

ExtIdle ==
    FullIdle /\ LibIdle /\ AIIdle /\ ServerIdle /\ AppIdle /\ AdvisorIdle

\* computeTotals and analyzeBudget on every transaction list of the bounds
InitCalc ==
    /\ transactions \in SeqsUpTo(CalcTxs, MaxTx)
    /\ startingBalance = 0
    /\ goalsArg = << >>
    /\ monthArg = May
    /\ called = "none"
    /\ totals = NoTotals
    /\ analysis = NoAnalysis
    /\ progress = << >>
    /\ GoalsIdle
    /\ ExtIdle

NextCalc == CallComputeTotals \/ CallAnalyzeBudget

SpecCalc == InitCalc /\ [][NextCalc]_vars

\* calculateBudgetProgress on every transaction list and goal list of the bounds
InitProgress ==
    /\ transactions \in SeqsUpTo(ProgressTxs, MaxProgressTx)
    /\ startingBalance = 0
    /\ goalsArg \in SeqsUpTo(ProgressGoals, MaxGoalArgs)
    /\ monthArg \in QueryMonths
    /\ called = "none"
    /\ totals = NoTotals
    /\ analysis = NoAnalysis
    /\ progress = << >>
    /\ GoalsIdle
    /\ ExtIdle

NextProgress == CallCalculateBudgetProgress

SpecProgress == InitProgress /\ [][NextProgress]_vars

\* the BudgetGoals component from its mount with no stored goals
InitGoals ==
    /\ CalcIdle
    /\ ExtIdle
    /\ goals = << >>
    /\ newGoal = EmptyForm
    /\ showSetup = FALSE
    /\ now \in ClockInstants
    /\ prevGoals = << >>
    /\ lastOp = NoOp

NextGoals ==
    \/ setNewGoalCategory
    \/ setNewGoalLimit
    \/ toggleSetup
    \/ handleAddGoal
    \/ handleRemoveGoal
    \/ handleResetMonthlyGoals
    \/ advanceClock

SpecGoals == InitGoals /\ [][NextGoals]_vars

\* adding one goal and copying it to the next month, on every day of two years
InitDate ==
    /\ CalcIdle
    /\ ExtIdle
    /\ goals = << >>
    /\ newGoal = [category |-> "Food", limit |-> "5"]
    /\ showSetup = TRUE
    /\ now \in AllInstants
    /\ prevGoals = << >>
    /\ lastOp = NoOp

NextDate == handleAddGoal \/ handleResetMonthlyGoals

SpecDate == InitDate /\ [][NextDate]_vars

\* performFullAnalysis, called twice, on every transaction list of the bounds
InitFull ==
    /\ transactions \in SeqsUpTo(FullTxs, MaxFullTx)
    /\ startingBalance = 0
    /\ goalsArg = << >>
    /\ monthArg = May
    /\ called = "none"
    /\ totals = NoTotals
    /\ analysis = NoAnalysis
    /\ progress = << >>
    /\ GoalsIdle
    /\ ExtIdle

NextFull == CallPerformFullAnalysis \/ CallPerformFullAnalysisAgain

SpecFull == InitFull /\ [][NextFull]_vars

\* performFullAnalysis on the lists of AdviceLists
InitAdvice ==
    /\ transactions \in AdviceLists
    /\ startingBalance = 0
    /\ goalsArg = << >>
    /\ monthArg = May
    /\ called = "none"
    /\ totals = NoTotals
    /\ analysis = NoAnalysis
    /\ progress = << >>
    /\ GoalsIdle
    /\ ExtIdle

SpecAdvice == InitAdvice /\ [][NextFull]_vars

\* one call of one of the five analysis functions, on every pair of a
\* transaction list and a goal list of the bounds
InitLib ==
    /\ transactions \in SeqsUpTo(ProgressTxs, MaxLibArgs)
    /\ startingBalance = 0
    /\ goalsArg \in SeqsUpTo(ProgressGoals, MaxLibArgs)
    /\ monthArg \in QueryMonths
    /\ called = "none"
    /\ totals = NoTotals
    /\ analysis = NoAnalysis
    /\ progress = << >>
    /\ GoalsIdle
    /\ ExtIdle

NextLib ==
    \/ CallComputeTotals
    \/ CallGroupByCategory
    \/ CallCalculateBudgetProgress
    \/ CallAnalyzeBudget
    \/ CallPerformFullAnalysis

SpecLib == InitLib /\ [][NextLib]_vars

\* prepareBudgetDataForAI on every pair of transaction lists of the bounds
InitAI ==
    /\ transactions \in SeqsUpTo(AITxs, MaxAITx)
    /\ startingBalance = 0
    /\ goalsArg = << >>
    /\ monthArg = May
    /\ called = "none"
    /\ totals = NoTotals
    /\ analysis = NoAnalysis
    /\ progress = << >>
    /\ GoalsIdle
    /\ FullIdle
    /\ LibIdle
    /\ ServerIdle
    /\ AppIdle
    /\ AdvisorIdle
    /\ transactionsB \in SeqsUpTo(AITxs, MaxAITx)
    /\ summary = << >>
    /\ summaryB = << >>

NextAI == CallPrepareBudgetDataForAI \/ CallPrepareBudgetDataForAIAgain

SpecAI == InitAI /\ [][NextAI]_vars

\* the server from its start, with the API key configured or not
InitChat ==
    /\ CalcIdle
    /\ GoalsIdle
    /\ FullIdle
    /\ LibIdle
    /\ AIIdle
    /\ AppIdle
    /\ AdvisorIdle
    /\ keyPresent \in BOOLEAN
    /\ nowMs = 0
    /\ chatRateLimiter = [id \in Sessions |-> << >>]
    /\ chatLeft = [id \in Sessions |->
                      IF id = "default" THEN MaxChat ELSE MaxChatOther]
    /\ admitted = [id \in Sessions |-> << >>]
    /\ chatResponse = NoChatResponse
    /\ clientBodies = { Body(TRUE, Div(0, 1), TRUE, << >>) }
    /\ analysisCache = << >>
    /\ inflight = << >>
    /\ analyzeLeft = 1
    /\ computedFor = {}
    /\ firstAnswered = << >>
    /\ analyzeResponse = NoAnalyzeResponse
    /\ reportLeft = 1
    /\ reportResponse = NoReportResponse

NextChat ==
    \/ postChat
    \/ tick
    \/ postAnalyzeBudget
    \/ analyzeBudgetComputes
    \/ analyzeBudgetResponds
    \/ postMonthlyReport

SpecChat == InitChat /\ [][NextChat]_vars

\* analyze-budget requests, up to MaxInflight of them suspended at a time,
\* while the API key is set and unset
InitAnalyze ==
    /\ CalcIdle
    /\ GoalsIdle
    /\ FullIdle
    /\ LibIdle
    /\ AIIdle
    /\ AppIdle
    /\ AdvisorIdle
    /\ ChatIdle
    /\ ReportIdle
    /\ keyPresent \in BOOLEAN
    /\ clientBodies = RequestBodies
    /\ analysisCache = << >>
    /\ inflight = << >>
    /\ analyzeLeft = MaxAnalyze
    /\ computedFor = {}
    /\ firstAnswered = << >>
    /\ analyzeResponse = NoAnalyzeResponse

NextAnalyze ==
    \/ postAnalyzeBudget
    \/ analyzeBudgetComputes
    \/ analyzeBudgetResponds
    \/ configureKey

SpecAnalyze == InitAnalyze /\ [][NextAnalyze]_vars

\* the App component from its mount with the demo transactions
InitApp ==
    /\ transactions = demoTransactions
    /\ startingBalance = 500
    /\ goalsArg = << >>
    /\ monthArg = May
    /\ called = "none"
    /\ totals = NoTotals
    /\ analysis = NoAnalysis
    /\ progress = << >>
    /\ GoalsIdle
    /\ FullIdle
    /\ LibIdle
    /\ AIIdle
    /\ ServerIdle
    /\ form = InitialForm
    /\ editingId = ""
    /\ editForm = InitialEditForm
    /\ nanoidCount = 0
    /\ lastAppOp = NoAppOp
    /\ AdvisorIdle

NextApp ==
    \/ fillForm
    \/ addTransaction
    \/ deleteTransaction
    \/ startEdit
    \/ fillEditForm
    \/ saveEdit
    \/ cancelEdit

SpecApp == InitApp /\ [][NextApp]_vars

\* the chat component from its mount, with MaxSends accepted submits
InitAdvisor ==
    /\ CalcIdle
    /\ GoalsIdle
    /\ FullIdle
    /\ LibIdle
    /\ AIIdle
    /\ ServerIdle
    /\ AppIdle
    /\ messages = << >>
    /\ input = ""
    /\ loading = FALSE
    /\ pending = << >>
    /\ sendsLeft = MaxSends
    /\ lastSendOp = "none"

NextAdvisor ==
    \/ setInput
    \/ sendMessage
    \/ fetchSettles
    \/ jsonSettles

SpecAdvisor == InitAdvisor /\ [][NextAdvisor]_vars

----------------------------------------------------------------------------
(* Properties of computeTotals and analyzeBudget, checked under SpecCalc *)

\* the sum of the amounts of the transactions at the positions in I
RECURSIVE SumAmounts(_, _)
SumAmounts(txs, I) ==
    IF I = {} THEN 0
    ELSE LET i == CHOOSE j \in I : TRUE
         IN  txs[i].amount + SumAmounts(txs, I \ {i})

OfType(txs, type) == {i \in 1..Len(txs) : txs[i].type = type}

\* C1: computeTotals returns as incomeTotal the sum of the amounts of type
\* 'income' and as expenseTotal the sum of the amounts of type 'expense'; a
\* transaction of any other type changes neither total.
C1_UnknownTypesExcluded ==
    called = "computeTotals" =>
        /\ totals.incomeTotal = SumAmounts(transactions, OfType(transactions, "income"))
        /\ totals.expenseTotal = SumAmounts(transactions, OfType(transactions, "expense"))

\* C2: when every amount is non-negative, both totals are non-negative and
\* their sum is the sum of the amounts of exactly the transactions of type
\* 'income' or 'expense'.
C2_TotalsAccountForRecognizedTypes ==
    (/\ called = "computeTotals"
     /\ \A i \in 1..Len(transactions) : transactions[i].amount >= 0) =>
        /\ totals.incomeTotal >= 0
        /\ totals.expenseTotal >= 0
        /\ totals.incomeTotal + totals.expenseTotal =
             SumAmounts(transactions,
                        OfType(transactions, "income") \cup OfType(transactions, "expense"))

\* C3: analyzeBudget never divides by zero: savingsRate is exactly 0 when
\* totalIncome is 0, every categoryBreakdown percentage is exactly 0 when
\* totalExpenses is 0, and analyzeBudget(0, []) is all zeros with an empty
\* categoryBreakdown.
C3_NoDivisionByZero ==
    called = "analyzeBudget" =>
        /\ IsFinite(analysis.savingsRate)
        /\ \A k \in 1..Len(analysis.categoryBreakdown) :
              IsFinite(analysis.categoryBreakdown[k].percentage)
        /\ analysis.totalIncome = 0 => analysis.savingsRate = Zero
        /\ analysis.totalExpenses = 0 =>
              \A k \in 1..Len(analysis.categoryBreakdown) :
                 analysis.categoryBreakdown[k].percentage = Zero
        /\ (transactions = << >> /\ startingBalance = 0) =>
              /\ analysis.totalIncome = 0
              /\ analysis.totalExpenses = 0
              /\ analysis.netSavings = 0
              /\ analysis.savingsRate = Zero
              /\ analysis.categoryBreakdown = << >>

\* C3 witness: no income, expenses that cancel to 0, and two categories in the
\* breakdown, each of which would be divided by a zero total
C3_Witness ==
    /\ called = "analyzeBudget"
    /\ analysis.totalIncome = 0
    /\ analysis.totalExpenses = 0
    /\ Len(analysis.categoryBreakdown) = 2
    /\ analysis.categoryBreakdown[1].amount # 0

----------------------------------------------------------------------------
(* Properties of calculateBudgetProgress, checked under SpecProgress *)

\* what was spent on a category in a month, from the transactions themselves
SpentOn(txs, category, month) ==
    SumAmounts(txs, {i \in 1..Len(txs) :
                        /\ txs[i].type = "expense"
                        /\ Slice7(txs[i].date) = month
                        /\ txs[i].category = category})

\* the positions of the goals of a month, and the position of the k-th of them
GoalsOfMonth(gs, month) == {i \in 1..Len(gs) : gs[i].month = month}

KthGoalOfMonth(gs, month, k) ==
    CHOOSE i \in GoalsOfMonth(gs, month) :
        Cardinality({j \in GoalsOfMonth(gs, month) : j <= i}) = k

\* C4: for a goal with monthlyLimit > 0 the status is 'exceeded' iff
\* spent > limit, 'warning' iff spent <= limit and spent/limit*100 >= 80, and
\* 'safe' otherwise; spent equal to the limit is 'warning'.
C4_StatusClassification ==
    called = "calculateBudgetProgress" =>
        \A k \in 1..Len(progress) :
            LET p == progress[k]
                spent == SpentOn(transactions, p.category, monthArg)
            IN  p.limit > 0 =>
                  /\ p.status \in {"safe", "warning", "exceeded"}
                  /\ p.status = "exceeded" <=> spent > p.limit
                  /\ p.status = "warning" <=>
                        (spent <= p.limit /\ 100 * spent >= 80 * p.limit)
                  /\ p.status = "safe" <=> 100 * spent < 80 * p.limit
                  /\ spent = p.limit => p.status = "warning"

\* C4 witness: a goal whose limit is spent exactly
C4_Witness ==
    /\ called = "calculateBudgetProgress"
    /\ \E k \in 1..Len(progress) :
          /\ progress[k].limit > 0
          /\ progress[k].spent = progress[k].limit
          /\ progress[k].status = "warning"

\* C5: the result has one entry per goal of the queried month, in goal order,
\* and none for a goal of another month; it is empty when no goal matches, and
\* a matching goal without an expense of its category in the month has spent 0.
C5_OneEntryPerMonthGoal ==
    called = "calculateBudgetProgress" =>
        /\ Len(progress) = Cardinality(GoalsOfMonth(goalsArg, monthArg))
        /\ \A k \in 1..Len(progress) :
              LET g == goalsArg[KthGoalOfMonth(goalsArg, monthArg, k)]
              IN  /\ progress[k].category = g.category
                  /\ progress[k].limit = g.monthlyLimit
                  /\ (\A i \in 1..Len(transactions) :
                        ~(/\ transactions[i].type = "expense"
                          /\ Slice7(transactions[i].date) = monthArg
                          /\ transactions[i].category = g.category))
                     => progress[k].spent = 0
        /\ GoalsOfMonth(goalsArg, monthArg) = {} => progress = << >>

\* C5 witness: three goals, the middle one of another month, the last one of a
\* category without any expense
C5_Witness ==
    /\ called = "calculateBudgetProgress"
    /\ Len(goalsArg) = 3
    /\ goalsArg[2].month # monthArg
    /\ Len(progress) = 2
    /\ progress[1].category # progress[2].category
    /\ progress[1].spent > 0
    /\ progress[2].spent = 0
    /\ Len(transactions) > 0

\* C6: in each entry, spent is the sum of the amounts of the expenses of the
\* queried month whose category equals the goal's exactly, limit is the goal's
\* monthlyLimit, remaining = limit - spent, and percentage = spent/limit*100
\* when limit > 0 and 0 when limit <= 0.
C6_EntryFields ==
    called = "calculateBudgetProgress" =>
        \A k \in 1..Len(progress) :
            LET g == goalsArg[KthGoalOfMonth(goalsArg, monthArg, k)]
                p == progress[k]
                spent == SpentOn(transactions, g.category, monthArg)
            IN  /\ p.spent = spent
                /\ p.limit = g.monthlyLimit
                /\ p.remaining = g.monthlyLimit - spent
                /\ p.percentage.den > 0
                /\ g.monthlyLimit > 0 =>
                      p.percentage.num * g.monthlyLimit = 100 * spent * p.percentage.den
                /\ g.monthlyLimit <= 0 => p.percentage = Zero

\* C6 witness: the scenario at scale 1/20: limit 5 and spent 6 give percentage
\* 120, remaining -1 and status 'exceeded', with a transaction in the list that
\* is no expense
C6_Witness ==
    /\ called = "calculateBudgetProgress"
    /\ \E i \in 1..Len(transactions) : transactions[i].type # "expense"
    /\ \E k \in 1..Len(progress) :
          /\ progress[k].limit = 5
          /\ progress[k].spent = 6
          /\ progress[k].percentage = [num |-> 120, den |-> 1]
          /\ progress[k].remaining = -1
          /\ progress[k].status = "exceeded"

----------------------------------------------------------------------------
(* Properties of the BudgetGoals collection, checked under SpecGoals *)

\* how many goals of gs have this category and month
CountOf(gs, category, month) ==
    Cardinality({i \in 1..Len(gs) : gs[i].category = category /\ gs[i].month = month})

\* C7: after any sequence of add-goal, remove-goal and copy-to-next-month
\* operations from the empty collection, the collection holds at most one goal
\* for each (category, month) pair.
C7_OneGoalPerCategoryAndMonth ==
    \A i, j \in 1..Len(goals) :
        (goals[i].category = goals[j].category /\ goals[i].month = goals[j].month)
            => i = j

\* C8: add-goal is an upsert: when the category has a goal in the current
\* month, that entry is replaced at its position by the new limit and the
\* length and every other entry stay; otherwise one entry is appended at the
\* end and every existing entry stays.
C8_AddGoalIsUpsert ==
    lastOp.op = "handleAddGoal" =>
        LET new == Goal(lastOp.category, lastOp.limit, lastOp.month)
        IN  IF CountOf(prevGoals, lastOp.category, lastOp.month) > 0
            THEN /\ Len(goals) = Len(prevGoals)
                 /\ \E i \in 1..Len(prevGoals) :
                       /\ prevGoals[i].category = lastOp.category
                       /\ prevGoals[i].month = lastOp.month
                       /\ goals[i] = new
                       /\ \A j \in 1..Len(prevGoals) : j # i => goals[j] = prevGoals[j]
            ELSE /\ Len(goals) = Len(prevGoals) + 1
                 /\ goals[Len(goals)] = new
                 /\ \A j \in 1..Len(prevGoals) : goals[j] = prevGoals[j]

\* C8 witness: a goal that is not the last of the collection has just had its
\* limit replaced
C8_Witness ==
    /\ lastOp.op = "handleAddGoal"
    /\ Len(goals) = Len(prevGoals)
    /\ Len(goals) >= 2
    /\ goals[1] # prevGoals[1]
    /\ goals[1].monthlyLimit = lastOp.limit

\* the month after a month of the calendar
NextCalendarMonth(ym) ==
    IF ym.month = 12 THEN YM(ym.year + 1, 1) ELSE YM(ym.year, ym.month + 1)

\* C9: copy-to-next-month gives every copied goal the month that is exactly one
\* calendar month after the current month, on every day of the month and in
\* December.  (Checked under SpecDate.)
C9_CopiesGoToNextCalendarMonth ==
    lastOp.op = "handleResetMonthlyGoals" =>
        \A i \in (Len(prevGoals) + 1)..Len(goals) :
            goals[i].month = NextCalendarMonth(lastOp.month)

----------------------------------------------------------------------------
(* Properties of performFullAnalysis, checked under SpecFull *)

\* C11: the result of analyzeBudget, and so of performFullAnalysis, does not
\* depend on startingBalance: two calls on the same transactions with any two
\* opening balances return the same analysis, in which netSavings is
\* totalIncome - totalExpenses and savingsRate is netSavings / totalIncome * 100.
C11_ResultIgnoresStartingBalance ==
    called = "performFullAnalysisAgain" =>
        /\ full = fullB
        /\ full.netSavings = full.totalIncome - full.totalExpenses
        /\ full.totalIncome > 0 =>
              full.savingsRate =
                  Times(Div(full.netSavings, full.totalIncome), 100)

\* two calls with different opening balances on a list with income and expenses
C11_Witness ==
    /\ called = "performFullAnalysisAgain"
    /\ startingBalance # balanceB
    /\ full.totalIncome > 0
    /\ full.totalExpenses > 0

\* C20: with no transactions performFullAnalysis returns zero totals, zero
\* netSavings and savingsRate, an empty categoryBreakdown, no alerts, no
\* insights, and the 'savings rate is below 10%' message as its only
\* recommendation.
C20_EmptyListAnalysis ==
    (called # "none" /\ transactions = << >>) =>
        /\ full.totalIncome = 0
        /\ full.totalExpenses = 0
        /\ full.netSavings = 0
        /\ full.savingsRate = Zero
        /\ full.categoryBreakdown = << >>
        /\ full.alerts = << >>
        /\ full.insights = << >>
        /\ Len(full.recommendations) = 1
        /\ full.recommendations[1].key = "savingsRateBelow10"

\* performFullAnalysis has returned for the empty list
C20_Witness ==
    /\ called = "performFullAnalysis"
    /\ transactions = << >>
    /\ Len(full.recommendations) = 1

----------------------------------------------------------------------------
(* Properties of the five analysis functions as a library, under SpecLib *)

----------------------------------------------------------------------------
(* The category breakdown of analyzeBudget, checked under SpecCalc *)

ExpensesOf(txs, category) ==
    {i \in 1..Len(txs) : txs[i].type = "expense" /\ txs[i].category = category}

FirstExpenseOf(txs, category) ==
    CHOOSE i \in ExpensesOf(txs, category) :
        \A j \in ExpensesOf(txs, category) : i <= j

\* C14: categoryBreakdown has exactly one entry for each distinct category
\* (compared exactly) among the transactions of type 'expense', in the order
\* in which the categories first occur in the input; the amount of an entry
\* is the sum of the expense amounts of its category and its percentage is
\* amount / totalExpenses * 100 (0 when totalExpenses is not positive).
\* Income transactions contribute no entry.
C14_BreakdownPerCategoryInFirstOccurrenceOrder ==
    called = "analyzeBudget" =>
        LET b == analysis.categoryBreakdown
            expenseCategories ==
                {transactions[i].category : i \in OfType(transactions, "expense")}
        IN  /\ {b[k].category : k \in 1..Len(b)} = expenseCategories
            /\ Len(b) = Cardinality(expenseCategories)
            /\ \A j, k \in 1..Len(b) :
                  j < k => FirstExpenseOf(transactions, b[j].category)
                           < FirstExpenseOf(transactions, b[k].category)
            /\ \A k \in 1..Len(b) :
                  /\ b[k].amount =
                        SumAmounts(transactions,
                                   ExpensesOf(transactions, b[k].category))
                  /\ b[k].percentage =
                        IF analysis.totalExpenses > 0
                        THEN Times(Div(b[k].amount, analysis.totalExpenses), 100)
                        ELSE Zero

\* two categories; the one that occurs first has the smaller amount, which is
\* the sum of two expenses, the second of them after the other category
C14_Witness ==
    /\ called = "analyzeBudget"
    /\ Len(analysis.categoryBreakdown) = 2
    /\ analysis.categoryBreakdown[1].amount < analysis.categoryBreakdown[2].amount
    /\ Cardinality(ExpensesOf(transactions,
                              analysis.categoryBreakdown[1].category)) = 2
    /\ transactions[2].category = analysis.categoryBreakdown[2].category

----------------------------------------------------------------------------
(* Properties of prepareBudgetDataForAI, checked under SpecAI *)

Keys(members) == [k \in 1..Len(members) |-> members[k][1]]

SameAmountsTypesCategories(txsA, txsB) ==
    /\ Len(txsA) = Len(txsB)
    /\ \A i \in 1..Len(txsA) :
          /\ txsA[i].type = txsB[i].type
          /\ txsA[i].amount = txsB[i].amount
          /\ txsA[i].category = txsB[i].category

\* C15: the string that prepareBudgetDataForAI returns does not depend on
\* the id, description, date or periodTag of any transaction: two lists that
\* agree element by element on type, amount and category give the same
\* string.  The summary holds only income, expenses, savings, savingsRate,
\* the (category, amount, percentage) of each category and the transaction
\* count.
C15_SummaryIgnoresPrivateFields ==
    called = "prepareBudgetDataForAIAgain" =>
        /\ SameAmountsTypesCategories(transactions, transactionsB)
              => summary = summaryB
        /\ Keys(summary) = << "income", "expenses", "savings", "savingsRate",
                              "categories", "transactionCount" >>
        /\ \A k \in 1..Len(summary[5][2]) :
              Keys(summary[5][2][k]) = << "category", "amount", "percentage" >>
        /\ summary[6][2] = Div(Len(transactions), 1)

\* two lists with a category each that agree on type, amount and category
\* and differ in id, description, date and periodTag at every position
C15_Witness ==
    /\ called = "prepareBudgetDataForAIAgain"
    /\ Len(transactions) = 2
    /\ SameAmountsTypesCategories(transactions, transactionsB)
    /\ \A i \in 1..Len(transactions) :
          /\ transactions[i].id # transactionsB[i].id
          /\ transactions[i].description # transactionsB[i].description
          /\ transactions[i].date # transactionsB[i].date
    /\ Len(summary[5][2]) > 0

----------------------------------------------------------------------------
(* Properties of the chat rate limiter, checked under SpecChat *)

\* how many of the requests of a log are less than WindowMs old at time t
RecentAt(log, t) == Cardinality({i \in 1..Len(log) : t - log[i] < WindowMs})

----------------------------------------------------------------------------
(* Properties of POST /api/analyze-budget, checked under SpecAnalyze *)

IsPrefix(p, q) == Len(p) <= Len(q) /\ SubSeq(q, 1, Len(p)) = p

\* C17: whatever the provider does (no key, an exception, a status that is
\* not OK, an empty content, a content that does not parse, a payload that
\* is no array), a request with a valid body is answered with ok:true and an
\* analysis that equals the local performFullAnalysis in totalIncome,
\* totalExpenses, netSavings, savingsRate, categoryBreakdown, insights and
\* alerts, and whose recommendations begin with the local recommendations.
C17_LocalAnalysisSurvivesProvider ==
    analyzeResponse.status \notin {0, 400} =>
        LET local == performFullAnalysis(analyzeResponse.body.startingBalance,
                                         analyzeResponse.body.transactions)
            data == analyzeResponse.data
        IN  /\ analyzeResponse.status = 200
            /\ analyzeResponse.ok
            /\ data.totalIncome = local.totalIncome
            /\ data.totalExpenses = local.totalExpenses
            /\ data.netSavings = local.netSavings
            /\ data.savingsRate = local.savingsRate
            /\ data.categoryBreakdown = local.categoryBreakdown
            /\ data.insights = local.insights
            /\ data.alerts = local.alerts
            /\ IsPrefix(local.recommendations, data.recommendations)

\* a computed answer that the provider has enriched: the local
\* recommendations are there, followed by those of the provider
C17_Witness ==
    /\ analyzeResponse.status = 200
    /\ ~analyzeResponse.cached
    /\ Len(analyzeResponse.body.transactions) > 0
    /\ LET local == performFullAnalysis(analyzeResponse.body.startingBalance,
                                        analyzeResponse.body.transactions)
       IN  /\ Len(local.recommendations) > 0
           /\ Len(analyzeResponse.data.recommendations)
                 > Len(local.recommendations)

\* a response with cached:true carries the entry stored under the key of its
\* body, and that entry was computed for an equal body
CachedAnswerIsOfAnEqualBody ==
    analyzeResponse.cached =>
        /\ analyzeResponse.body \in computedFor
        /\ analyzeResponse.data =
              analysisCache[cacheKeyOf(analyzeResponse.body)]

\* a request whose body has been answered with a computed analysis starts no
\* computation, calls no provider and leaves the cache as it is: it is
\* answered at once with cached:true and the stored entry
EqualBodyIsAnsweredFromCache ==
    analyzeLeft' # analyzeLeft =>
        IF Len(inflight') > Len(inflight)
        THEN inflight'[Len(inflight')].body \notin computedFor
        ELSE analyzeResponse'.body \in computedFor =>
                /\ analyzeResponse'.cached
                /\ analyzeResponse'.data =
                      analysisCache[cacheKeyOf(analyzeResponse'.body)]
                /\ analysisCache' = analysisCache

\* C18: once a request with some body has been answered successfully, every
\* later request with an equal body is answered with cached:true and exactly
\* the stored data, without recomputing or calling the provider; a request
\* with a different body is never answered with the cached entry of another
\* body.
C18_CacheKeyedByBody ==
    /\ [][EqualBodyIsAnsweredFromCache]_vars
    /\ []CachedAnswerIsOfAnEqualBody

----------------------------------------------------------------------------
(* Properties of the App component, checked under SpecApp *)

\* the amount texts that are zero, negative or no number
RejectedAmountTexts == {"", "0", "-3", "abc"}

EveryAmountIsPositive ==
    \A i \in 1..Len(transactions) : transactions[i].amount > 0

\* a step of addTransaction or saveEdit that reads a rejected amount text
\* leaves the list as it was
RejectedAmountLeavesList ==
    (\/ lastAppOp' = "addTransaction" /\ form.amount \in RejectedAmountTexts
     \/ lastAppOp' = "saveEdit" /\ editForm.amount \in RejectedAmountTexts)
        => transactions' = transactions

\* C19: after any sequence of addTransaction, saveEdit and deleteTransaction
\* from the demo list, every transaction in state has an amount > 0; an add
\* or an edit whose amount text is zero, negative or no number leaves the
\* list as it was.
C19_AmountsStayPositive ==
    [][RejectedAmountLeavesList]_vars /\ []EveryAmountIsPositive

\* an edit with a text that is no number has just been refused and the row
\* is still being edited, after a transaction was added and an amount was
\* changed by an earlier edit
C19_Witness ==
    /\ lastAppOp = "saveEdit"
    /\ editForm.amount = "abc"
    /\ editingId # ""
    /\ \E i \in 1..Len(transactions) : transactions[i].id = nanoid(1)
    /\ \E i \in 1..Len(transactions) : transactions[i].amount = 5

----------------------------------------------------------------------------
(* Properties of generateRecommendations, generateInsights and
   generateAlerts, checked under SpecAdvice *)

\* the keys of the messages of a list, in order
KeysOf(msgs) == [k \in 1..Len(msgs) |-> msgs[k].key]

Has(msgs, key) == \E k \in 1..Len(msgs) : msgs[k].key = key

CountKeys(msgs, keys) == Cardinality({k \in 1..Len(msgs) : msgs[k].key \in keys})

SavingsTierKeys == {"overspending", "savingsRateBelow10", "saving20OrMore"}

\* C21: generateRecommendations emits at most one savings-rate message,
\* chosen by savingsRate alone: the overspend warning iff savingsRate < 0, the
\* below-10% nudge iff 0 <= savingsRate < 10, the 20%-or-more praise iff
\* savingsRate >= 20, none iff 10 <= savingsRate < 20; when emitted it is the
\* first element of the list.
C21_OneSavingsTierMessageFirst ==
    called # "none" =>
        LET recs == full.recommendations
            rate == full.savingsRate
        IN  /\ CountKeys(recs, SavingsTierKeys) <= 1
            /\ Has(recs, "overspending") <=> rate.num < 0
            /\ Has(recs, "savingsRateBelow10")
                  <=> (rate.num >= 0 /\ rate.num < 10 * rate.den)
            /\ Has(recs, "saving20OrMore") <=> rate.num >= 20 * rate.den
            /\ CountKeys(recs, SavingsTierKeys) = 0
                  <=> (rate.num >= 10 * rate.den /\ rate.num < 20 * rate.den)
            /\ CountKeys(recs, SavingsTierKeys) = 1 => recs[1].key \in SavingsTierKeys

\* the praise at a savings rate of exactly 20, followed by two warnings
C21_Witness ==
    /\ called # "none"
    /\ full.savingsRate = Div(20, 1)
    /\ KeysOf(full.recommendations)
          = << "saving20OrMore", "housingCosts", "foodSpending" >>

\* the category names of the model whose lower-cased form contains
\* 'housing' or 'rent', and those that contain 'food' or 'groceries'
HousingNames == {"Rent", "Housing", "Parent Care"}
FoodNames == {"Food", "Groceries"}

\* the index of the first entry of a breakdown with a name of `names`, 0 if
\* there is none
FirstNamed(breakdown, names) ==
    IF \A k \in 1..Len(breakdown) : breakdown[k].category \notin names THEN 0
    ELSE CHOOSE k \in 1..Len(breakdown) :
            /\ breakdown[k].category \in names
            /\ \A j \in 1..(k - 1) : breakdown[j].category \notin names

\* q > k for the exact fraction q
Exceeds(q, k) == q.num > k * q.den

\* C22: generateRecommendations emits the housing-cost warning iff the first
\* category in breakdown order whose lower-cased name contains 'housing' or
\* 'rent' has a percentage > 35; later matching categories are never
\* consulted.  For income 3200, Housing 1200, Food 150 the list holds the
\* 20%-or-more praise and the housing warning (88.9%).
C22_HousingWarningOfFirstMatch ==
    called # "none" =>
        LET recs == full.recommendations
            b == full.categoryBreakdown
            h == FirstNamed(b, HousingNames)
        IN  /\ Has(recs, "housingCosts")
                  <=> (h # 0 /\ Exceeds(b[h].percentage, 35))
            /\ \A k \in 1..Len(recs) :
                  recs[k].key = "housingCosts"
                      => recs[k].values = << ToFixed(b[h].percentage, 1) >>
            /\ transactions = ExampleList
                  => /\ Has(recs, "saving20OrMore")
                     /\ \E k \in 1..Len(recs) :
                           /\ recs[k].key = "housingCosts"
                           /\ recs[k].values = << 889 >>

\* no warning: the first match is at 35%, a later match at 65%
C22_Witness ==
    /\ called # "none"
    /\ Len(full.categoryBreakdown) = 2
    /\ full.categoryBreakdown[1].category = "Rent"
    /\ full.categoryBreakdown[1].percentage = Div(35, 1)
    /\ full.categoryBreakdown[2].category = "Housing"
    /\ Exceeds(full.categoryBreakdown[2].percentage, 35)
    /\ ~Has(full.recommendations, "housingCosts")

\* C23: generateRecommendations emits the food-spending warning iff the first
\* category in breakdown order whose lower-cased name contains 'food' or
\* 'groceries' has a percentage > 15 (exactly 15 does not fire), whether or
\* not the housing warning fired; it comes after the housing warning when
\* both are emitted.
C23_FoodWarningOfFirstMatch ==
    called # "none" =>
        LET recs == full.recommendations
            b == full.categoryBreakdown
            f == FirstNamed(b, FoodNames)
        IN  /\ Has(recs, "foodSpending")
                  <=> (f # 0 /\ Exceeds(b[f].percentage, 15))
            /\ \A i, j \in 1..Len(recs) :
                  (recs[i].key = "housingCosts" /\ recs[j].key = "foodSpending")
                      => i < j

\* no food warning at exactly 15%, next to a housing warning
C23_Witness ==
    /\ called # "none"
    /\ \E k \in 1..Len(full.categoryBreakdown) :
          /\ full.categoryBreakdown[k].category = "Food"
          /\ full.categoryBreakdown[k].percentage = Div(15, 1)
    /\ Has(full.recommendations, "housingCosts")
    /\ ~Has(full.recommendations, "foodSpending")

\* C24: generateRecommendations emits the diversification warning whenever
\* the largest expense category's share of total expenses exceeds 50%, and
\* never when no category exceeds 50%, for every ordering of the
\* transactions.
C24_DiversifyWhenLargestAbove50 ==
    called # "none" =>
        (Has(full.recommendations, "diversify")
            <=> \E k \in 1..Len(full.categoryBreakdown) :
                   Exceeds(full.categoryBreakdown[k].percentage, 50))

LargeExpenses ==
    {i \in 1..Len(transactions) :
        /\ transactions[i].type = "expense"
        /\ 5 * transactions[i].amount > full.totalExpenses}

\* C26: generateAlerts emits the large-transaction alert iff totalExpenses > 0
\* and at least one transaction of type 'expense' has an amount strictly
\* above 20% of totalExpenses; the alert names the number of such expense
\* transactions, income transactions are never counted, and nothing is
\* emitted when totalExpenses is 0.
C26_LargeTransactionAlert ==
    called # "none" =>
        /\ Has(full.alerts, "largeTransactions")
              <=> (full.totalExpenses > 0 /\ LargeExpenses # {})
        /\ \A k \in 1..Len(full.alerts) :
              full.alerts[k].key = "largeTransactions"
                  => full.alerts[k].values[1] = Cardinality(LargeExpenses)

\* one expense counted, next to an expense of exactly 20% and an income
\* above the threshold
C26_Witness ==
    /\ called # "none"
    /\ full.totalExpenses = 15
    /\ \E i, j, k \in 1..Len(transactions) :
          /\ transactions[i].type = "expense" /\ transactions[i].amount = 3
          /\ transactions[j].type = "expense" /\ transactions[j].amount = 12
          /\ transactions[k].type = "income"
    /\ \E k \in 1..Len(full.alerts) :
          /\ full.alerts[k].key = "largeTransactions"
          /\ full.alerts[k].values[1] = 1

\* the distinct categories of the expense transactions
ExpenseCategories ==
    {transactions[i].category :
        i \in {j \in 1..Len(transactions) : transactions[j].type = "expense"}}

\* C27: generateAlerts emits the negative-balance alert iff netSavings < 0 and
\* the consolidation suggestion iff there are more than 10 distinct expense
\* categories (exactly 10 does not fire); the alerts come in the order
\* large-transaction, negative-balance, consolidation.
C27_NegativeBalanceAndConsolidation ==
    called # "none" =>
        /\ Has(full.alerts, "spendingExceedsIncome") <=> full.netSavings < 0
        /\ Has(full.alerts, "manyCategories")
              <=> Cardinality(ExpenseCategories) > 10
        /\ \A i, j \in 1..Len(full.alerts) :
              /\ (/\ full.alerts[i].key = "largeTransactions"
                  /\ full.alerts[j].key # "largeTransactions") => i < j
              /\ (/\ full.alerts[i].key = "spendingExceedsIncome"
                  /\ full.alerts[j].key = "manyCategories") => i < j

\* the three alerts in order, for eleven categories without income
C27_Witness ==
    /\ called # "none"
    /\ Cardinality(ExpenseCategories) = 11
    /\ KeysOf(full.alerts)
          = << "largeTransactions", "spendingExceedsIncome", "manyCategories" >>

----------------------------------------------------------------------------
(* The breakdown against the totals, checked under SpecCalc *)

\* the sum of the amounts of the first n entries of a breakdown
RECURSIVE SumBreakdown(_, _)
SumBreakdown(b, n) ==
    IF n = 0 THEN 0 ELSE b[n].amount + SumBreakdown(b, n - 1)

\* the sum of the percentages of the first n entries, as an exact fraction
RECURSIVE SumPercentages(_, _)
SumPercentages(b, n) ==
    IF n = 0 THEN Zero
    ELSE LET p == b[n].percentage
             q == SumPercentages(b, n - 1)
         IN  Div(p.num * q.den + q.num * p.den, p.den * q.den)

\* C28: for every transaction list, the amounts in analyzeBudget's
\* categoryBreakdown sum to totalExpenses, and when totalExpenses > 0 the
\* percentages sum to 100: computeTotals and groupByCategory account for the
\* same transactions.
C28_BreakdownSumsToTotalExpenses ==
    called = "analyzeBudget" =>
        LET b == analysis.categoryBreakdown
        IN  /\ SumBreakdown(b, Len(b)) = analysis.totalExpenses
            /\ analysis.totalExpenses > 0
                  => SumPercentages(b, Len(b)) = Div(100, 1)

----------------------------------------------------------------------------
(* The first outcome of a body, checked under SpecAnalyze *)

\* an analysis that holds no recommendation of the provider
IsUnenriched(data) ==
    \A k \in 1..Len(data.recommendations) : data.recommendations[k].key # "ai"

\* a request that arrives after its body was first answered, with an analysis
\* that is not enriched, starts no handler that would call the provider and
\* is answered with cached:true and the data of that first answer
LaterRequestGetsFirstOutcome ==
    analyzeLeft' # analyzeLeft =>
        IF Len(inflight') > Len(inflight)
        THEN LET body == inflight'[Len(inflight')].body
             IN  ~(body \in DOMAIN firstAnswered
                   /\ IsUnenriched(firstAnswered[body]))
        ELSE LET body == analyzeResponse'.body
             IN  (body \in DOMAIN firstAnswered
                  /\ IsUnenriched(firstAnswered[body]))
                    => /\ analyzeResponse'.cached
                       /\ analyzeResponse'.data = firstAnswered[body]

\* C29: the cache makes the first outcome for a request body permanent: if
\* the first request for a body was answered with the un-enriched local
\* analysis (key missing or provider failed), every later request with the
\* same body returns that same analysis with cached:true and attempts no
\* enrichment, also after the key is configured or the provider recovers.
C29_FirstOutcomeIsPermanent == [][LaterRequestGetsFirstOutcome]_vars

----------------------------------------------------------------------------
(* Properties of FinancialAdvisorChat, checked under SpecAdvisor *)

\* the texts that are blank
BlankTexts == {"", "  "}

\* a send while loading or with blank input changes nothing; an accepted send
\* appends one user message and sets loading; a request that settles appends
\* one assistant message and clears loading; nothing else changes the list
SendAndSettleSteps ==
    /\ (lastSendOp' = "sendMessage" /\ (loading \/ input \in BlankTexts))
          => /\ messages' = messages
             /\ loading' = loading
             /\ pending' = pending
    /\ (lastSendOp' = "sendMessage" /\ ~loading /\ input \notin BlankTexts)
          => /\ Len(messages') = Len(messages) + 1
             /\ SubSeq(messages', 1, Len(messages)) = messages
             /\ messages'[Len(messages')].role = "user"
             /\ loading'
    /\ Len(pending') < Len(pending)
          => /\ Len(messages') = Len(messages) + 1
             /\ SubSeq(messages', 1, Len(messages)) = messages
             /\ messages'[Len(messages')].role = "assistant"
             /\ ~loading'
    /\ (lastSendOp' # "sendMessage" /\ Len(pending') >= Len(pending))
          => messages' = messages

\* whenever loading is false the list alternates user, assistant
AlternatesWhenIdle ==
    ~loading =>
        /\ Len(messages) % 2 = 0
        /\ \A k \in 1..Len(messages) :
              messages[k].role = IF k % 2 = 1 THEN "user" ELSE "assistant"

\* C30: in FinancialAdvisorChat a send attempted while a request is in flight
\* (loading) or with blank input is ignored; every accepted send appends
\* exactly one user message and, once its request settles in any way
\* (success, HTTP error status, ok:false body, network exception), exactly
\* one assistant message (the reply or an 'Error: ...' message), after which
\* loading is false; hence whenever loading is false the message list
\* strictly alternates user, assistant.
C30_SendsAndRepliesAlternate ==
    [][SendAndSettleSteps]_vars /\ []AlternatesWhenIdle

\* two exchanges, one answered with an error and one with the reply, and a
\* send with a blank input that was just ignored
C30_Witness ==
    /\ ~loading
    /\ Len(messages) = 4
    /\ messages[2].content = "Error: Chat failed (429)"
    /\ messages[4].content = "reply"
    /\ lastSendOp = "sendMessage"
    /\ input = "  "

====
